---------------------------- MODULE Spec2Model ----------------------------
(***************************************************************************)
(* Model of the relay / synchronisation layer of tmrl (networking.py):     *)
(* the Buffer of samples, the Server (relay) with one handler thread per   *)
(* accepted connection, the TrainerInterface client and the RolloutWorker  *)
(* client, over sockets carrying framed objects and ACK tokens.            *)
(***************************************************************************)
EXTENDS Naturals, Integers, Sequences, FiniteSets, TLC

(***************************************************************************)
(* Bounds of the model.                                                    *)
(***************************************************************************)
MaxSamples == 2      \* samples the worker's episode loop produces
MaxBroadcast == 2    \* calls of broadcast_model
MaxFaults == 1       \* network failures and expired timers
MaxConn == 2         \* sockets of one role alive at the same time
MaxEvents == 3       \* samples, broadcasts and faults of one run, together
MaxCap == 2          \* largest Buffer capacity tried in the Buffer specification
MaxAdded == 4        \* samples added to the Buffer under test
MaxOther == 2        \* longest buffer merged into the Buffer under test
MaxStat == 1         \* largest sum of the four statistics of a merged buffer
MaxFrames == 2       \* frames the peer writes on the connection of SpecWire
MaxObjLen == 1       \* longest byte string the peer pickles
MaxHistory == 3      \* largest model_history tried in the actor specification
MaxUpdates == 6      \* weights received by the worker in the actor specification
MaxArrivals == 3     \* clients that connect to one port in the accept specification
MaxAcceptErrors == 1 \* accept() calls of one loop that raise with a client waiting

(***************************************************************************)
(* Program parameters.                                                     *)
(***************************************************************************)
samples_per_server_batch == 1
samples_per_worker_batch == 1
\* cfg.BUFFERS_MAXLEN: large enough that the relay pipeline never clips
BUFFERS_MAXLEN == MaxSamples + 1

VARIABLES
    \* ---- the Buffer under test (specification SpecBuf)
    ubuf,       \* the Buffer object
    uadded,     \* history: every sample added since the last clear, in order
    uop,        \* history: the last operation, its argument and the Buffer before it
    unext,      \* history: the next fresh sample
    \* ---- the relay (Server)
    srvBuffer,      \* Server.__buffer
    srvWeights,     \* Server.__weights (None, or a blob)
    srvWeightsId,   \* Server.__weights_id
    lock,           \* the six Lock objects: who holds each
    h,              \* one handler thread per connection slot: its locals
    \* ---- the sockets
    sock,       \* per connection slot: is each end open, is the link healthy
    inbox,      \* per connection slot and end: the objects received and unread
    \* ---- the clients
    cl,             \* the client thread of each role: its locals
    tiWeights,      \* TrainerInterface.__weights
    tiBuffer,       \* TrainerInterface.__buffer
    rwBuffer,       \* RolloutWorker.__buffer
    rwWeights,      \* RolloutWorker.__weights
    \* ---- the worker's model history (specification SpecActor)
    model_history,       \* RolloutWorker.model_history
    cur_hist_cpt,        \* RolloutWorker._cur_hist_cpt
    model_path_history,  \* the files written under model_path_history: the
                         \* version each one holds, oldest first
    nupdates,            \* history: the updates applied to the actor
    \* ---- the relay's two accept loops (specification SpecAccept)
    acc,        \* per role: the loop's position, its open listening sockets,
                \* the connections waiting, and history: arrivals, accepted
                \* connections, the connection each started thread serves
    \* ---- history variables
    hist,
    \* ---- the bytes of one connection (specification SpecWire)
    chan,       \* the unread bytes written by the peer, whether the connection is
                \* up, and the bytes the receiver wrote back
    rcv,        \* the receiving thread: its position, recv_object's msg and
                \* msglen, its socket, and whether the thread is still running
    whist       \* history: the frames written, the results returned, the last
                \* header read, the bytes read, the bodies completed

bufVars == <<ubuf, uadded, uop, unext>>
sysVars == <<srvBuffer, srvWeights, srvWeightsId, lock, h, sock, inbox, cl,
             tiWeights, tiBuffer, rwBuffer, rwWeights, hist>>
wireVars == <<chan, rcv, whist>>
actorVars == <<model_history, cur_hist_cpt, model_path_history, nupdates>>
acceptVars == <<acc>>
vars == <<ubuf, uadded, uop, unext, srvBuffer, srvWeights, srvWeightsId, lock, h,
          sock, inbox, cl, tiWeights, tiBuffer, rwBuffer, rwWeights, hist,
          chan, rcv, whist, model_history, cur_hist_cpt, model_path_history, nupdates,
          acc>>

(***************************************************************************)
(* Buffer                                                                  *)
(***************************************************************************)
Buffer(maxlen) ==
    [memory |-> <<>>,
     stat_train_return |-> 0, stat_test_return |-> 0,
     stat_train_steps |-> 0, stat_test_steps |-> 0,
     maxlen |-> maxlen]

\* a clip that keeps the oldest entries instead of the newest
clip_keeps_oldest(self) ==
    LET lenmem == Len(self.memory)
    IN  IF lenmem > self.maxlen
        THEN [self EXCEPT !.memory = SubSeq(self.memory, 1, self.maxlen)]
        ELSE self

\* self.memory = self.memory[(lenmem - self.maxlen):] when lenmem > maxlen
clip_to_maxlen(self) ==
    LET lenmem == Len(self.memory)
    IN  IF lenmem > self.maxlen
        THEN [self EXCEPT !.memory = SubSeq(self.memory, (lenmem - self.maxlen) + 1, lenmem)]
        ELSE self

append_sample(self, sample) ==
    clip_to_maxlen([self EXCEPT !.memory = Append(@, sample)])

\* a clear that starts the Buffer afresh, statistics included
clear_resets(self) == Buffer(self.maxlen)

clear(self) == [self EXCEPT !.memory = <<>>]

len(self) == Len(self.memory)

\* a merge that adds the statistics up instead of overwriting them
iadd_accumulates(self, other) ==
    LET clipped == clip_to_maxlen([self EXCEPT !.memory = @ \o other.memory])
    IN  [clipped EXCEPT !.stat_train_return = @ + other.stat_train_return,
                        !.stat_test_return = @ + other.stat_test_return,
                        !.stat_train_steps = @ + other.stat_train_steps,
                        !.stat_test_steps = @ + other.stat_test_steps]

iadd(self, other) ==
    LET clipped == clip_to_maxlen([self EXCEPT !.memory = @ \o other.memory])
    IN  [clipped EXCEPT !.stat_train_return = other.stat_train_return,
                        !.stat_test_return = other.stat_test_return,
                        !.stat_train_steps = other.stat_train_steps,
                        !.stat_test_steps = other.stat_test_steps]


(***************************************************************************)
(* Specification SpecBuf: one Buffer driven by arbitrary sequences of      *)
(* append_sample, += and clear.                                            *)
(***************************************************************************)
StatNames == {"stat_train_return", "stat_test_return", "stat_train_steps", "stat_test_steps"}

Stats(b) == [n \in StatNames |-> b[n]]

\* the statistics another node's buffer can carry
StatVectors ==
    {st \in (0..MaxStat) \X (0..MaxStat) \X (0..MaxStat) \X (0..MaxStat) :
        st[1] + st[2] + st[3] + st[4] <= MaxStat}

\* the buffers another node can hold: n fresh samples and any statistics
OtherBuffers(first) ==
    { [memory |-> [i \in 1..n |-> first + i - 1],
       stat_train_return |-> st[1], stat_test_return |-> st[2],
       stat_train_steps |-> st[3], stat_test_steps |-> st[4],
       maxlen |-> MaxOther] :
         n \in 0..MaxOther, st \in StatVectors }

UAppend ==
    /\ unext <= MaxAdded
    /\ ubuf' = append_sample(ubuf, unext)
    /\ uadded' = Append(uadded, unext)
    /\ uop' = [op |-> "append", pre |-> ubuf, arg |-> [Buffer(1) EXCEPT !.memory = <<unext>>]]
    /\ unext' = unext + 1
    /\ UNCHANGED <<sysVars, wireVars, actorVars, acceptVars>>

UMerge ==
    \E other \in OtherBuffers(unext) :
        /\ unext + Len(other.memory) <= MaxAdded + 1
        /\ ubuf' = iadd(ubuf, other)
        /\ uadded' = uadded \o other.memory
        /\ uop' = [op |-> "merge", pre |-> ubuf, arg |-> other]
        /\ unext' = unext + Len(other.memory)
        /\ UNCHANGED <<sysVars, wireVars, actorVars, acceptVars>>

UClear ==
    /\ ubuf' = clear(ubuf)
    /\ uadded' = <<>>
    /\ uop' = [op |-> "clear", pre |-> ubuf, arg |-> Buffer(0)]
    /\ UNCHANGED <<unext>>
    /\ UNCHANGED <<sysVars, wireVars, actorVars, acceptVars>>

NextBuf == UAppend \/ UMerge \/ UClear


(***************************************************************************)
(* The system: sockets, framed objects and ACK tokens.                     *)
(***************************************************************************)
Roles == {"T", "W"}              \* trainer connections, worker connections
Slots == 1..MaxConn
Conn == Roles \X Slots           \* a connection: its role and its slot
SampleIds == 1..MaxSamples
BlobIds == 1..MaxBroadcast

Peer(side) == IF side = "cli" THEN "srv" ELSE "cli"

\* what travels on a socket, and what recv_object / poll return
ACK == [t |-> "ACK", buf |-> Buffer(0), blob |-> 0, ver |-> 0]
BufMsg(b) == [t |-> "BUF", buf |-> b, blob |-> 0, ver |-> 0]
\* a weights blob; ver is history: the relay's __weights_id the blob was stored under
WMsg(blob, ver) == [t |-> "W", buf |-> Buffer(0), blob |-> blob, ver |-> ver]
None == [t |-> "NONE", buf |-> Buffer(0), blob |-> 0, ver |-> 0]
Lost == [t |-> "LOST", buf |-> Buffer(0), blob |-> 0, ver |-> 0]

NoOwner == <<"none", "-", 0>>
Handler(c) == <<"srv", c[1], c[2]>>
Client(r) == <<"cli", r, 0>>

IdleHandler ==
    [pc |-> "idle", wait_ack |-> FALSE, ack_old |-> FALSE, obj |-> None,
     worker_weights_id |-> 0, out |-> 0, nsent |-> 0]

\* a handler thread as Thread(target=...).start() leaves it
StartedHandler == [IdleHandler EXCEPT !.pc = "loop"]

\* a client thread at the top of its main loop, before get_connected_socket
DisconnectedClient ==
    [pc |-> "connect", slot |-> 0, wait_ack |-> FALSE, ack_old |-> FALSE,
     recv_old |-> FALSE, obj |-> None, out |-> 0, nsent |-> 0, left |-> "-"]

\* a client thread that ends when it leaves the inner loop
Stopped(why) == [DisconnectedClient EXCEPT !.pc = "stopped", !.left = why]

\* a client thread back at the top of its main loop; why is history: the
\* reason it left the inner loop
Left(why) == [DisconnectedClient EXCEPT !.left = why]

Free(c) == ~sock[c].cli /\ ~sock[c].srv /\ h[c].pc = "idle"

\* a thread that goes on without releasing the lock it holds
release_skipped(l) == lock

\* Lock.release() at the end of the send branch of an iteration
release(l) == [lock EXCEPT ![l] = NoOwner]

\* a thread that leaves its loop with the lock it holds
break_holding(l) == lock

\* Lock.release() before a break
release_before_break(l) == [lock EXCEPT ![l] = NoOwner]

\* conn.close() at one end: what it had not read is discarded
Closed(c, side) == [sock EXCEPT ![c][side] = FALSE]
Dropped(c, side) == [inbox EXCEPT ![c][side] = <<>>]

\* sock.sendall(msg) returned: the bytes reach the peer if it is still there
Delivered(c, from, m) ==
    IF sock[c][Peer(from)] /\ sock[c].ok
    THEN [inbox EXCEPT ![c][Peer(from)] = Append(@, m)]
    ELSE inbox

\* a send that reports a failure and leaves the socket open
select_and_send_or_leave_socket(obj, c, side, ret) ==
    \/ /\ ret = TRUE
       /\ inbox' = Delivered(c, side, obj)
       /\ sock' = sock
    \/ /\ ret = FALSE
       /\ ~(sock[c][Peer(side)] /\ sock[c].ok)
       /\ UNCHANGED <<sock, inbox>>

\* select for writing, then send_object; ret is the value returned.  A
\* healthy connection to a peer that is there is writable and takes the
\* bytes; the three failures need a broken link or a peer that has closed.
select_and_send_or_close_socket(obj, c, side, ret) ==
    \/ /\ ret = TRUE                     \* writable, send_object returned True
       /\ inbox' = Delivered(c, side, obj)
       /\ sock' = sock
    \/ /\ ret = FALSE                    \* len(xl) != 0
       /\ ~sock[c].ok
       /\ sock' = Closed(c, side)
       /\ inbox' = Dropped(c, side)
    \/ /\ ret = FALSE                    \* len(wl) == 0: select timed out
       /\ ~sock[c].ok
       /\ sock' = Closed(c, side)
       /\ inbox' = Dropped(c, side)
    \/ /\ ret = FALSE                    \* send_object returned False: OSError
       /\ ~(sock[c][Peer(side)] /\ sock[c].ok)
       /\ sock' = Closed(c, side)
       /\ inbox' = Dropped(c, side)

\* what a zero-wait poll followed by recv_object finds at one end
PollResult(c, side) ==
    IF inbox[c][side] # <<>> THEN Head(inbox[c][side])
    ELSE IF ~sock[c][Peer(side)] \/ ~sock[c].ok THEN Lost
    ELSE None

\* a poll that leaves what it has found in the queue
poll_and_leave(c, side) == UNCHANGED <<sock, inbox>>

\* poll_and_recv_or_close_socket: its effect on the socket. recv_object
\* answers a fully received object with send_ack before returning it.
poll_and_recv_or_close_socket(c, side) ==
    LET r == PollResult(c, side)
    IN  CASE r.t = "LOST" -> /\ sock' = Closed(c, side)
                             /\ inbox' = Dropped(c, side)
          [] r.t = "NONE" -> UNCHANGED <<sock, inbox>>
          [] r.t = "ACK"  -> /\ inbox' = [inbox EXCEPT ![c][side] = Tail(@)]
                             /\ sock' = sock
          [] OTHER        -> /\ inbox' = [inbox EXCEPT
                                    ![c][side] = Tail(@),
                                    ![c][Peer(side)] =
                                        IF sock[c][Peer(side)] /\ sock[c].ok
                                        THEN Append(@, ACK) ELSE @]
                             /\ sock' = sock

\* history: what the environment has done so far
Events == hist.nsamples + hist.bcast + hist.faults

\* history: count one more occurrence of every sample of mem
Counted(f, mem) ==
    [s \in DOMAIN f |-> f[s] + Cardinality({i \in DOMAIN mem : mem[i] = s})]

\* a sender for which any buffer is a batch
batch_always_available(buffer, samples_per_batch) == TRUE

\* "if len(self.__buffer) >= self.samples_per_..._batch": a new batch is available
batch_available(buffer, samples_per_batch) == len(buffer) >= samples_per_batch

\* a thread that takes whatever it receives for an acknowledgment
is_ack_or_object(obj) == obj.t \notin {"NONE", "LOST"}

\* "elif obj == 'ACK'" in the four loops
is_ack(obj) == obj.t = "ACK"

\* a sender that does not look at wait_ack
may_send_always(wait_ack) == TRUE

\* "if not wait_ack": a new object is sent only when nothing is outstanding
may_send(wait_ack) == ~wait_ack

\* a sender that never finds the ACK late
ack_never_timed_out(ack_old) == FALSE

\* "elapsed >= cfg.ACK_TIMEOUT_...": ack_old says the time has passed
ack_timed_out(ack_old) == ack_old


(***************************************************************************)
(* Server.__trainer_thread: the handler of one trainer connection.         *)
(* One loop iteration is: the outbound half under the buffer lock, the     *)
(* poll, and the store of what was received under the weights lock.        *)
(***************************************************************************)
\* a handler that leaves the aggregate as it is after a send
trainer_thread_keeps(buffer) == buffer

\* self.__buffer after a successful send: self.__buffer.clear()
trainer_thread_sent(buffer) == clear(buffer)

\* a version counter one bit wide
next_weights_id_wraps(id) == (id + 1) % 2

\* self.__weights_id += 1
next_weights_id(id) == id + 1

\* a relay that keeps the first weights it was given
trainer_thread_keeps_first(weights, obj) == IF weights = 0 THEN obj.blob ELSE weights

\* self.__weights = obj
trainer_thread_weights(weights, obj) == obj.blob

\* the weights lock is taken, the received weights stored, the lock released
trainer_thread_stored(c, obj) ==
    /\ srvWeights' = trainer_thread_weights(srvWeights, obj)
    /\ srvWeightsId' = next_weights_id(srvWeightsId)
    /\ h' = [h EXCEPT ![c] = [@ EXCEPT !.pc = "loop", !.obj = None]]
    /\ hist' = IF cl["W"].pc = "connect"
               THEN [hist EXCEPT !.offlineVer = next_weights_id(srvWeightsId)]
               ELSE hist

\* poll_and_recv_or_close_socket and the branches that follow it
trainer_thread_recv(c) ==
    LET r == PollResult(c, "srv")
    IN  /\ poll_and_recv_or_close_socket(c, "srv")
        /\ CASE r.t = "LOST" -> /\ h' = [h EXCEPT ![c] = IdleHandler]
                                /\ UNCHANGED <<srvWeights, srvWeightsId, hist>>
             [] r.t = "NONE" -> /\ h' = [h EXCEPT ![c].pc = "loop"]
                                /\ UNCHANGED <<srvWeights, srvWeightsId, hist>>
             [] is_ack(r)    -> /\ h' = [h EXCEPT ![c].pc = "loop", ![c].wait_ack = FALSE,
                                                  ![c].out = @ - 1]
                                /\ UNCHANGED <<srvWeights, srvWeightsId, hist>>
             [] OTHER        -> IF lock.srvW = NoOwner
                                THEN trainer_thread_stored(c, r)
                                ELSE \* blocked in self.__weights_lock.acquire()
                                     /\ h' = [h EXCEPT ![c].pc = "store", ![c].obj = r]
                                     /\ UNCHANGED <<srvWeights, srvWeightsId, hist>>

\* an iteration from its top: the buffer lock is acquired and the branch chosen
trainer_thread_iter(c) ==
    /\ c[1] = "T"
    /\ h[c].pc = "loop"
    /\ lock.srvB = NoOwner
    /\ IF batch_available(srvBuffer, samples_per_server_batch) /\ may_send(h[c].wait_ack)
       THEN \* select_and_send_or_close_socket is entered with the lock held
            /\ lock' = [lock EXCEPT !.srvB = Handler(c)]
            /\ h' = [h EXCEPT ![c].pc = "sending"]
            /\ UNCHANGED <<sock, inbox, srvWeights, srvWeightsId, hist>>
       ELSE IF batch_available(srvBuffer, samples_per_server_batch) /\ ack_timed_out(h[c].ack_old)
            THEN \* conn.close(); release; break
                 /\ sock' = Closed(c, "srv")
                 /\ inbox' = Dropped(c, "srv")
                 /\ h' = [h EXCEPT ![c] = IdleHandler]
                 /\ UNCHANGED <<lock, srvWeights, srvWeightsId, hist>>
            ELSE \* release, then the poll
                 /\ trainer_thread_recv(c)
                 /\ lock' = lock
    /\ UNCHANGED <<srvBuffer, cl, tiWeights, tiBuffer, rwBuffer, rwWeights>>
    /\ UNCHANGED <<bufVars, wireVars, actorVars, acceptVars>>

\* select_and_send_or_close_socket(self.__buffer, conn) returns, lock still held
trainer_thread_send(c) ==
    /\ c[1] = "T"
    /\ h[c].pc = "sending"
    /\ \E ret \in BOOLEAN :
        /\ select_and_send_or_close_socket(BufMsg(srvBuffer), c, "srv", ret)
        /\ IF ret
           THEN \* wait_ack = True; obj is history: the payload as pickled
                /\ h' = [h EXCEPT ![c].pc = "sent", ![c].wait_ack = TRUE,
                                  ![c].ack_old = FALSE, ![c].out = @ + 1,
                                  ![c].nsent = @ + 1, ![c].obj = BufMsg(srvBuffer)]
                /\ hist' = [hist EXCEPT !.sentS = Counted(@, srvBuffer.memory)]
                /\ lock' = lock
           ELSE \* release; break
                /\ h' = [h EXCEPT ![c] = IdleHandler]
                /\ lock' = release_before_break("srvB")
                /\ hist' = hist
    /\ UNCHANGED <<srvBuffer, srvWeights, srvWeightsId, cl, tiWeights, tiBuffer,
                   rwBuffer, rwWeights>>
    /\ UNCHANGED <<bufVars, wireVars, actorVars, acceptVars>>

\* self.__buffer.clear() after the send, then the release
trainer_thread_clear(c) ==
    /\ c[1] = "T"
    /\ h[c].pc = "sent"
    /\ srvBuffer' = trainer_thread_sent(srvBuffer)
    /\ lock' = release("srvB")
    /\ h' = [h EXCEPT ![c].pc = "poll", ![c].obj = None]
    /\ UNCHANGED <<srvWeights, srvWeightsId, sock, inbox, cl, tiWeights, tiBuffer,
                   rwBuffer, rwWeights, hist>>
    /\ UNCHANGED <<bufVars, wireVars, actorVars, acceptVars>>

\* the rest of an iteration that sent: the poll
trainer_thread_poll(c) ==
    /\ c[1] = "T"
    /\ h[c].pc = "poll"
    /\ trainer_thread_recv(c)
    /\ UNCHANGED <<srvBuffer, lock, cl, tiWeights, tiBuffer, rwBuffer, rwWeights>>
    /\ UNCHANGED <<bufVars, wireVars, actorVars, acceptVars>>

\* the weights lock is obtained at last
trainer_thread_store(c) ==
    /\ c[1] = "T"
    /\ h[c].pc = "store"
    /\ lock.srvW = NoOwner
    /\ trainer_thread_stored(c, h[c].obj)
    /\ UNCHANGED <<srvBuffer, lock, sock, inbox, cl, tiWeights, tiBuffer,
                   rwBuffer, rwWeights>>
    /\ UNCHANGED <<bufVars, wireVars, actorVars, acceptVars>>

(***************************************************************************)
(* Server.__rollout_worker_thread: the handler of one worker connection.   *)
(***************************************************************************)
\* a handler that starts believing its worker holds the current weights
worker_weights_id_is_current == srvWeightsId

\* worker_weights_id = 0 at the start of the thread
initial_worker_weights_id == 0

\* worker_weights_id after a successful send
rollout_worker_thread_sent(weights_id) == weights_id

\* a handler that sends the weights whatever it has sent before
weights_always_new(worker_weights_id, weights_id) == TRUE

\* "if worker_weights_id != self.__weights_id"
weights_are_new(worker_weights_id, weights_id) == worker_weights_id # weights_id

\* a handler that assigns the received buffer instead of merging it
rollout_worker_thread_replaced(buffer, obj) == obj.buf

\* self.__buffer += obj
rollout_worker_thread_merged(buffer, obj) == iadd(buffer, obj.buf)

\* self.__buffer += obj under the buffer lock
rollout_worker_thread_stored(c, obj) ==
    /\ srvBuffer' = rollout_worker_thread_merged(srvBuffer, obj)
    /\ hist' = [hist EXCEPT !.mergedS = Counted(@, obj.buf.memory)]
    /\ h' = [h EXCEPT ![c] = [@ EXCEPT !.pc = "loop", !.obj = None]]

rollout_worker_thread_recv(c) ==
    LET r == PollResult(c, "srv")
    IN  /\ poll_and_recv_or_close_socket(c, "srv")
        /\ CASE r.t = "LOST" -> /\ h' = [h EXCEPT ![c] = IdleHandler]
                                /\ UNCHANGED <<srvBuffer, hist>>
             [] r.t = "NONE" -> /\ h' = [h EXCEPT ![c].pc = "loop"]
                                /\ UNCHANGED <<srvBuffer, hist>>
             [] is_ack(r)    -> /\ h' = [h EXCEPT ![c].pc = "loop", ![c].wait_ack = FALSE,
                                                  ![c].out = @ - 1]
                                /\ UNCHANGED <<srvBuffer, hist>>
             [] OTHER        -> IF lock.srvB = NoOwner
                                THEN rollout_worker_thread_stored(c, r)
                                ELSE \* blocked in self.__buffer_lock.acquire()
                                     /\ h' = [h EXCEPT ![c].pc = "store", ![c].obj = r]
                                     /\ UNCHANGED <<srvBuffer, hist>>

rollout_worker_thread_iter(c) ==
    /\ c[1] = "W"
    /\ h[c].pc = "loop"
    /\ lock.srvW = NoOwner
    /\ IF weights_are_new(h[c].worker_weights_id, srvWeightsId) /\ may_send(h[c].wait_ack)
       THEN /\ lock' = [lock EXCEPT !.srvW = Handler(c)]
            /\ h' = [h EXCEPT ![c].pc = "sending"]
            /\ UNCHANGED <<sock, inbox, srvBuffer, hist>>
       ELSE IF weights_are_new(h[c].worker_weights_id, srvWeightsId) /\ ack_timed_out(h[c].ack_old)
            THEN /\ sock' = Closed(c, "srv")
                 /\ inbox' = Dropped(c, "srv")
                 /\ h' = [h EXCEPT ![c] = IdleHandler]
                 /\ UNCHANGED <<lock, srvBuffer, hist>>
            ELSE /\ rollout_worker_thread_recv(c)
                 /\ lock' = lock
    /\ UNCHANGED <<srvWeights, srvWeightsId, cl, tiWeights, tiBuffer, rwBuffer, rwWeights>>
    /\ UNCHANGED <<bufVars, wireVars, actorVars, acceptVars>>

rollout_worker_thread_send(c) ==
    /\ c[1] = "W"
    /\ h[c].pc = "sending"
    /\ \E ret \in BOOLEAN :
        /\ select_and_send_or_close_socket(WMsg(srvWeights, srvWeightsId), c, "srv", ret)
        /\ IF ret
           THEN /\ h' = [h EXCEPT ![c].pc = "poll", ![c].wait_ack = TRUE,
                                  ![c].ack_old = FALSE, ![c].out = @ + 1,
                                  ![c].nsent = @ + 1,
                                  ![c].worker_weights_id =
                                        rollout_worker_thread_sent(srvWeightsId)]
                /\ hist' = [hist EXCEPT !.sentV = Counted(@, <<srvWeightsId>>)]
                /\ lock' = release("srvW")
           ELSE /\ h' = [h EXCEPT ![c] = IdleHandler]
                /\ UNCHANGED hist
                /\ lock' = release_before_break("srvW")
    /\ UNCHANGED <<srvBuffer, srvWeights, srvWeightsId, cl, tiWeights, tiBuffer,
                   rwBuffer, rwWeights>>
    /\ UNCHANGED <<bufVars, wireVars, actorVars, acceptVars>>

rollout_worker_thread_poll(c) ==
    /\ c[1] = "W"
    /\ h[c].pc = "poll"
    /\ rollout_worker_thread_recv(c)
    /\ UNCHANGED <<srvWeights, srvWeightsId, lock, cl, tiWeights, tiBuffer,
                   rwBuffer, rwWeights>>
    /\ UNCHANGED <<bufVars, wireVars, actorVars, acceptVars>>

rollout_worker_thread_store(c) ==
    /\ c[1] = "W"
    /\ h[c].pc = "store"
    /\ lock.srvB = NoOwner
    /\ rollout_worker_thread_stored(c, h[c].obj)
    /\ UNCHANGED <<srvWeights, srvWeightsId, lock, sock, inbox, cl, tiWeights, tiBuffer,
                   rwBuffer, rwWeights>>
    /\ UNCHANGED <<bufVars, wireVars, actorVars, acceptVars>>

(***************************************************************************)
(* get_connected_socket, with the relay's accept loop answering it.        *)
(***************************************************************************)
FreeSlots(r) == {k \in Slots : Free(<<r, k>>)}

LowestFree(r) == CHOOSE k \in FreeSlots(r) : \A j \in FreeSlots(r) : k <= j

\* connect() succeeds; accept_or_close_socket returns conn and the handler thread starts
connect(r) ==
    /\ cl[r].pc = "connect"
    /\ FreeSlots(r) # {}
    /\ LET c == <<r, LowestFree(r)>>
       IN  /\ sock' = [sock EXCEPT ![c] = [cli |-> TRUE, srv |-> TRUE, ok |-> TRUE]]
           /\ h' = [h EXCEPT ![c] = [StartedHandler EXCEPT
                                        !.worker_weights_id = initial_worker_weights_id]]
           /\ cl' = [cl EXCEPT ![r] = [DisconnectedClient EXCEPT !.pc = "loop", !.slot = c[2]]]
    /\ UNCHANGED <<srvBuffer, srvWeights, srvWeightsId, lock, inbox, tiWeights, tiBuffer,
                   rwBuffer, rwWeights, hist>>
    /\ UNCHANGED <<bufVars, wireVars, actorVars, acceptVars>>

\* connect() fails or times out: get_connected_socket returns None and the loop continues
connect_failed(r) ==
    /\ cl[r].pc = "connect"
    /\ UNCHANGED <<sysVars, wireVars, actorVars, acceptVars>>
    /\ UNCHANGED <<bufVars, wireVars, actorVars, acceptVars>>

CurConn(r) == <<r, cl[r].slot>>

\* a client that never gives up on a silent peer
recv_never_timed_out(recv_old) == FALSE

\* time.time() - recv_time > self.recv_timeout, tested when the poll found nothing
recv_timed_out(recv_old) == recv_old

\* a client that leaves its inner loop without s.close()
client_left_open(r, why) ==
    /\ cl' = [cl EXCEPT ![r] = Left(why)]
    /\ UNCHANGED <<sock, inbox>>

\* a client leaves its inner loop: break, then s.close()
client_left(r, why) ==
    /\ sock' = Closed(CurConn(r), "cli")
    /\ inbox' = Dropped(CurConn(r), "cli")
    /\ cl' = [cl EXCEPT ![r] = Left(why)]

(***************************************************************************)
(* TrainerInterface.__run_thread and the calls of the training loop        *)
(***************************************************************************)
\* a lock that lets a caller in while another thread holds it
acquire_while_held(l) == TRUE

\* Lock.acquire() of a call made by the training or episode loop: the caller
\* goes on only when no thread holds the lock
acquire(l) == lock[l] = NoOwner

\* a client that sends whatever self.__weights is
weights_always_staged(weights) == TRUE

\* "if self.__weights is not None"
weights_staged(weights) == weights # 0

\* a client that keeps only the last buffer it received
trainer_interface_replaced(buffer, obj) == obj.buf

\* self.__buffer += obj
trainer_interface_merged(buffer, obj) == iadd(buffer, obj.buf)

\* self.__weights after a successful send: None
trainer_interface_sent(weights) == 0

\* a client that gives up the staged weights with the connection
trainer_interface_dropped(weights) == 0

\* self.__weights after select_and_send_or_close_socket failed: untouched
trainer_interface_not_sent(weights) == weights

\* poll_and_recv_or_close_socket and the branches that follow it; the buffer
\* lock is only ever held for the length of one in-memory operation
trainer_interface_recv ==
    LET c == CurConn("T")
        r == PollResult(c, "cli")
    IN  IF r.t = "NONE" /\ recv_timed_out(cl["T"].recv_old)
        THEN \* nothing for longer than recv_tiemout
             /\ client_left("T", "recv_timeout")
             /\ UNCHANGED <<tiBuffer, hist>>
        ELSE /\ poll_and_recv_or_close_socket(c, "cli")
             /\ CASE r.t = "LOST" -> /\ cl' = [cl EXCEPT !["T"] = Left("poll_failed")]
                                     /\ UNCHANGED <<tiBuffer, hist>>
                  [] r.t = "NONE" -> /\ cl' = [cl EXCEPT !["T"].pc = "loop"]
                                     /\ UNCHANGED <<tiBuffer, hist>>
                  [] is_ack(r)    -> /\ cl' = [cl EXCEPT !["T"].pc = "loop",
                                                         !["T"].wait_ack = FALSE,
                                                         !["T"].out = @ - 1]
                                     /\ UNCHANGED <<tiBuffer, hist>>
                  [] OTHER        -> /\ lock.tiB = NoOwner
                                     /\ cl' = [cl EXCEPT !["T"].pc = "loop",
                                                         !["T"].recv_old = FALSE]
                                     /\ tiBuffer' = trainer_interface_merged(tiBuffer, r)
                                     /\ hist' = [hist EXCEPT
                                                   !.mergedT = Counted(@, r.buf.memory),
                                                   !.busyRecv = @ \/
                                                       /\ cl["T"].wait_ack
                                                       /\ ~cl["T"].ack_old
                                                       /\ tiWeights # 0]

trainer_interface_iter ==
    /\ cl["T"].pc = "loop"
    /\ lock.tiW = NoOwner
    /\ IF weights_staged(tiWeights) /\ may_send(cl["T"].wait_ack)
       THEN /\ lock' = [lock EXCEPT !.tiW = Client("T")]
            /\ cl' = [cl EXCEPT !["T"].pc = "sending"]
            /\ UNCHANGED <<sock, inbox, tiBuffer, hist>>
       ELSE IF weights_staged(tiWeights) /\ ack_timed_out(cl["T"].ack_old)
            THEN \* release; break; s.close()
                 /\ client_left("T", "ack_timeout")
                 /\ UNCHANGED <<lock, tiBuffer, hist>>
            ELSE /\ trainer_interface_recv
                 /\ lock' = lock
    /\ UNCHANGED <<srvBuffer, srvWeights, srvWeightsId, h, tiWeights, rwBuffer, rwWeights>>
    /\ UNCHANGED <<bufVars, wireVars, actorVars, acceptVars>>

\* select_and_send_or_close_socket(self.__weights, s) returns, weights lock still held
trainer_interface_send ==
    LET c == CurConn("T")
    IN  /\ cl["T"].pc = "sending"
        /\ \E ret \in BOOLEAN :
            /\ select_and_send_or_close_socket(WMsg(tiWeights, 0), c, "cli", ret)
            /\ IF ret
               THEN /\ cl' = [cl EXCEPT !["T"].pc = "sent", !["T"].wait_ack = TRUE,
                                        !["T"].ack_old = FALSE, !["T"].out = @ + 1,
                                        !["T"].nsent = @ + 1]
                    /\ hist' = [hist EXCEPT !.sentT = Counted(@, <<tiWeights>>)]
                    /\ lock' = lock
               ELSE /\ cl' = [cl EXCEPT !["T"] = Left("send_failed")]
                    /\ hist' = hist
                    /\ lock' = release_before_break("tiW")
        /\ tiWeights' = trainer_interface_not_sent(tiWeights)
        /\ UNCHANGED <<srvBuffer, srvWeights, srvWeightsId, h, tiBuffer, rwBuffer, rwWeights>>
        /\ UNCHANGED <<bufVars, wireVars, actorVars, acceptVars>>

\* self.__weights = None after the send, then the release
trainer_interface_clear ==
    /\ cl["T"].pc = "sent"
    /\ tiWeights' = trainer_interface_sent(tiWeights)
    /\ lock' = release("tiW")
    /\ cl' = [cl EXCEPT !["T"].pc = "poll"]
    /\ UNCHANGED <<srvBuffer, srvWeights, srvWeightsId, h, sock, inbox, tiBuffer,
                   rwBuffer, rwWeights, hist>>
    /\ UNCHANGED <<bufVars, wireVars, actorVars, acceptVars>>

trainer_interface_poll ==
    /\ cl["T"].pc = "poll"
    /\ trainer_interface_recv
    /\ UNCHANGED <<srvBuffer, srvWeights, srvWeightsId, lock, h, tiWeights,
                   rwBuffer, rwWeights>>
    /\ UNCHANGED <<bufVars, wireVars, actorVars, acceptVars>>

\* the training loop stages the policy's current parameters
broadcast_model ==
    /\ hist.bcast < MaxBroadcast /\ Events < MaxEvents
    /\ acquire("tiW")
    /\ tiWeights' = hist.bcast + 1
    /\ hist' = [hist EXCEPT !.bcast = @ + 1]
    /\ UNCHANGED <<srvBuffer, srvWeights, srvWeightsId, lock, h, sock, inbox, cl, tiBuffer,
                   rwBuffer, rwWeights>>
    /\ UNCHANGED <<bufVars, wireVars, actorVars, acceptVars>>

\* a retrieve_buffer that leaves the received buffer as it is
retrieve_buffer_keeps(buffer) == buffer

\* self.__buffer after retrieve_buffer: self.__buffer.clear()
retrieve_buffer_cleared(buffer) == clear(buffer)

\* the training loop takes a copy of the received buffer and clears it; the
\* history records the copy that is returned
retrieve_buffer ==
    /\ acquire("tiB")
    /\ LET buffer_copy == tiBuffer
       IN  hist' = [hist EXCEPT !.retrieved = Counted(@, buffer_copy.memory),
                                !.retStats = Stats(buffer_copy)]
    /\ tiBuffer' = retrieve_buffer_cleared(tiBuffer)
    /\ UNCHANGED <<srvBuffer, srvWeights, srvWeightsId, lock, h, sock, inbox, cl, tiWeights,
                   rwBuffer, rwWeights>>
    /\ UNCHANGED <<bufVars, wireVars, actorVars, acceptVars>>

(***************************************************************************)
(* RolloutWorker.__run_thread and the calls of the episode loop            *)
(***************************************************************************)
NoWeights == [blob |-> 0, ver |-> 0]

\* a worker that leaves its buffer as it is after a send
rollout_worker_keeps(buffer) == buffer

\* self.__buffer after a successful send: self.__buffer.clear()
rollout_worker_sent(buffer) == clear(buffer)

\* a worker that empties its buffer when the send failed
rollout_worker_drops(buffer) == clear(buffer)

\* self.__buffer after select_and_send_or_close_socket failed: untouched
rollout_worker_not_sent(buffer) == buffer

\* busyRecv is history: a client has stored an object it received while it
\* waited for an ACK, the ACK timeout not reached, and had a new object to send
rollout_worker_recv ==
    LET c == CurConn("W")
        r == PollResult(c, "cli")
    IN  IF r.t = "NONE" /\ recv_timed_out(cl["W"].recv_old)
        THEN \* nothing for longer than recv_timeout
             /\ client_left("W", "recv_timeout")
             /\ UNCHANGED <<rwWeights, hist>>
        ELSE /\ poll_and_recv_or_close_socket(c, "cli")
             /\ CASE r.t = "LOST" -> /\ cl' = [cl EXCEPT !["W"] = Left("poll_failed")]
                                     /\ UNCHANGED <<rwWeights, hist>>
                  [] r.t = "NONE" -> /\ cl' = [cl EXCEPT !["W"].pc = "loop"]
                                     /\ UNCHANGED <<rwWeights, hist>>
                  [] is_ack(r)    -> /\ cl' = [cl EXCEPT !["W"].pc = "loop",
                                                         !["W"].wait_ack = FALSE,
                                                         !["W"].out = @ - 1]
                                     /\ UNCHANGED <<rwWeights, hist>>
                  [] OTHER        -> /\ lock.rwW = NoOwner
                                     /\ cl' = [cl EXCEPT !["W"].pc = "loop",
                                                         !["W"].recv_old = FALSE]
                                     /\ rwWeights' = [blob |-> r.blob, ver |-> r.ver]
                                     /\ hist' = [hist EXCEPT
                                                   !.lastVer = r.ver, !.fresh = TRUE,
                                                   !.busyRecv = @ \/
                                                       /\ cl["W"].wait_ack
                                                       /\ ~cl["W"].ack_old
                                                       /\ len(rwBuffer) >=
                                                            samples_per_worker_batch]

rollout_worker_iter ==
    /\ cl["W"].pc = "loop"
    /\ lock.rwB = NoOwner
    /\ IF batch_available(rwBuffer, samples_per_worker_batch) /\ may_send(cl["W"].wait_ack)
       THEN /\ lock' = [lock EXCEPT !.rwB = Client("W")]
            /\ cl' = [cl EXCEPT !["W"].pc = "sending"]
            /\ UNCHANGED <<sock, inbox, rwWeights, hist>>
       ELSE IF batch_available(rwBuffer, samples_per_worker_batch) /\ ack_timed_out(cl["W"].ack_old)
            THEN \* release; break; s.close()
                 /\ client_left("W", "ack_timeout")
                 /\ UNCHANGED <<lock, rwWeights, hist>>
            ELSE /\ rollout_worker_recv
                 /\ lock' = lock
    /\ UNCHANGED <<srvBuffer, srvWeights, srvWeightsId, h, tiWeights, tiBuffer, rwBuffer>>
    /\ UNCHANGED <<bufVars, wireVars, actorVars, acceptVars>>

rollout_worker_send ==
    LET c == CurConn("W")
    IN  /\ cl["W"].pc = "sending"
        /\ \E ret \in BOOLEAN :
            /\ select_and_send_or_close_socket(BufMsg(rwBuffer), c, "cli", ret)
            /\ IF ret
               THEN /\ cl' = [cl EXCEPT !["W"].pc = "poll", !["W"].wait_ack = TRUE,
                                        !["W"].ack_old = FALSE, !["W"].out = @ + 1,
                                        !["W"].nsent = @ + 1]
                    /\ rwBuffer' = rollout_worker_sent(rwBuffer)
                    /\ hist' = [hist EXCEPT !.sentW = Counted(@, rwBuffer.memory),
                                            !.failed = <<>>]
                    /\ lock' = release("rwB")
               ELSE /\ cl' = [cl EXCEPT !["W"] = Left("send_failed")]
                    /\ rwBuffer' = rollout_worker_not_sent(rwBuffer)
                    /\ hist' = [hist EXCEPT !.failed = rwBuffer.memory]
                    /\ lock' = release_before_break("rwB")
        /\ UNCHANGED <<srvBuffer, srvWeights, srvWeightsId, h, tiWeights, tiBuffer, rwWeights>>
        /\ UNCHANGED <<bufVars, wireVars, actorVars, acceptVars>>

rollout_worker_poll ==
    /\ cl["W"].pc = "poll"
    /\ rollout_worker_recv
    /\ UNCHANGED <<srvBuffer, srvWeights, srvWeightsId, lock, h, tiWeights, tiBuffer,
                   rwBuffer>>
    /\ UNCHANGED <<bufVars, wireVars, actorVars, acceptVars>>

\* the steps of one episode: reset() and step(), each an append_sample
RECURSIVE episode_steps(_, _, _)
episode_steps(buffer, first, n) ==
    IF n = 0 THEN buffer
    ELSE episode_steps(append_sample(buffer, first), first + 1, n - 1)

\* collect_train_episode fills self.buffer and writes the episode's statistics
\* into it (rewards are not modelled: ret stays 0.0)
collect_train_episode(buffer, first, n) ==
    [episode_steps(buffer, first, n) EXCEPT !.stat_train_return = 0,
                                            !.stat_train_steps = n]

\* run(): an episode is collected into self.buffer, then send_and_clear_buffer
\* adds it to self.__buffer under the buffer lock and clears self.buffer
send_and_clear_buffer ==
    /\ acquire("rwB")
    /\ \E n \in 1..(MaxSamples - hist.nsamples) :
        /\ Events + n <= MaxEvents
        /\ rwBuffer' = iadd(rwBuffer,
                            collect_train_episode(Buffer(BUFFERS_MAXLEN), hist.nsamples + 1, n))
        /\ hist' = [hist EXCEPT !.nsamples = @ + n]
    /\ UNCHANGED <<srvBuffer, srvWeights, srvWeightsId, lock, h, sock, inbox, cl, tiWeights,
                   tiBuffer, rwWeights>>
    /\ UNCHANGED <<bufVars, wireVars, actorVars, acceptVars>>

\* a counter that is never set back
next_hist_cpt_runs_on(history, cpt) == IF history # 0 THEN cpt + 1 ELSE cpt

\* self._cur_hist_cpt after one applied update: counted when model_history
\* is set, and back to 0 when it reaches model_history
next_hist_cpt(history, cpt) ==
    IF history # 0
    THEN IF cpt + 1 = history THEN 0 ELSE cpt + 1
    ELSE cpt

\* "if self._cur_hist_cpt == self.model_history" after the increment: the
\* weights are written to a new file under model_path_history
saves_history(history, cpt) == history # 0 /\ cpt + 1 = history

\* an update that leaves the pending blob in place
update_actor_weights_keeps(weights) == weights

\* self.__weights after the blob was written and loaded: None
update_actor_weights_taken(weights) == NoWeights

\* the pending blob, if any, is written to model_path and loaded into the
\* actor, all under the weights lock; fresh is history: a blob was received
\* since the last load
update_actor_weights ==
    /\ acquire("rwW")
    /\ IF rwWeights # NoWeights
       THEN /\ hist' = [hist EXCEPT !.applied = rwWeights.ver, !.fresh = FALSE]
            /\ cur_hist_cpt' = next_hist_cpt(model_history, cur_hist_cpt)
            /\ model_path_history' = IF saves_history(model_history, cur_hist_cpt)
                                     THEN Append(model_path_history, rwWeights.ver)
                                     ELSE model_path_history
            /\ nupdates' = nupdates + 1
            /\ rwWeights' = update_actor_weights_taken(rwWeights)
       ELSE UNCHANGED <<hist, rwWeights, cur_hist_cpt, model_path_history, nupdates>>
    /\ UNCHANGED <<srvBuffer, srvWeights, srvWeightsId, lock, h, sock, inbox, cl, tiWeights,
                   tiBuffer, rwBuffer, model_history>>
    /\ UNCHANGED <<bufVars, wireVars, acceptVars>>

\* RolloutWorker.__run_thread has received weights: they replace what was
\* pending.  In the actor specification the relay is left out and new
\* versions simply arrive.
weights_arrive ==
    /\ hist.lastVer < MaxUpdates
    /\ \E blob \in BlobIds :
          rwWeights' = [blob |-> blob, ver |-> hist.lastVer + 1]
    /\ hist' = [hist EXCEPT !.lastVer = @ + 1, !.fresh = TRUE]
    /\ UNCHANGED <<srvBuffer, srvWeights, srvWeightsId, lock, h, sock, inbox, cl, tiWeights,
                   tiBuffer, rwBuffer>>
    /\ UNCHANGED <<bufVars, wireVars, actorVars, acceptVars>>

(***************************************************************************)
(* The environment: a link breaks, time passes.                            *)
(***************************************************************************)
\* the link of an established connection breaks: what is in flight is lost
link_breaks(c) ==
    /\ hist.faults < MaxFaults /\ Events < MaxEvents
    /\ sock[c].cli /\ sock[c].srv /\ sock[c].ok
    /\ sock' = [sock EXCEPT ![c].ok = FALSE]
    /\ inbox' = [inbox EXCEPT ![c] = [cli |-> <<>>, srv |-> <<>>]]
    /\ hist' = [hist EXCEPT !.faults = @ + 1]
    /\ UNCHANGED <<srvBuffer, srvWeights, srvWeightsId, lock, h, cl, tiWeights, tiBuffer,
                   rwBuffer, rwWeights>>
    /\ UNCHANGED <<bufVars, wireVars, actorVars, acceptVars>>

\* time.time() - ack_time reaches the ACK timeout in a handler
handler_ack_time_passes(c) ==
    /\ hist.faults < MaxFaults /\ Events < MaxEvents
    /\ h[c].wait_ack /\ ~h[c].ack_old
    /\ h' = [h EXCEPT ![c].ack_old = TRUE]
    /\ hist' = [hist EXCEPT !.faults = @ + 1]
    /\ UNCHANGED <<srvBuffer, srvWeights, srvWeightsId, lock, sock, inbox, cl, tiWeights,
                   tiBuffer, rwBuffer, rwWeights>>
    /\ UNCHANGED <<bufVars, wireVars, actorVars, acceptVars>>

\* time.time() - ack_time reaches the ACK timeout in a client
client_ack_time_passes(r) ==
    /\ hist.faults < MaxFaults /\ Events < MaxEvents
    /\ cl[r].wait_ack /\ ~cl[r].ack_old
    /\ cl' = [cl EXCEPT ![r].ack_old = TRUE]
    /\ hist' = [hist EXCEPT !.faults = @ + 1]
    /\ UNCHANGED <<srvBuffer, srvWeights, srvWeightsId, lock, h, sock, inbox, tiWeights,
                   tiBuffer, rwBuffer, rwWeights>>
    /\ UNCHANGED <<bufVars, wireVars, actorVars, acceptVars>>

\* time.time() - recv_time exceeds the client's receive timeout
client_recv_time_passes(r) ==
    /\ hist.faults < MaxFaults /\ Events < MaxEvents
    /\ cl[r].pc # "connect" /\ ~cl[r].recv_old
    /\ cl' = [cl EXCEPT ![r].recv_old = TRUE]
    /\ hist' = [hist EXCEPT !.faults = @ + 1]
    /\ UNCHANGED <<srvBuffer, srvWeights, srvWeightsId, lock, h, sock, inbox, tiWeights,
                   tiBuffer, rwBuffer, rwWeights>>
    /\ UNCHANGED <<bufVars, wireVars, actorVars, acceptVars>>

(***************************************************************************)
(* Specifications                                                          *)
(***************************************************************************)
(* send_object and recv_object on the bytes of one connection              *)
(* (specification SpecWire): a peer writes frames, one thread receives     *)
(* them with poll_and_recv_or_close_socket in its loop.                    *)
(***************************************************************************)
\* cfg.HEADER_SIZE: wide enough for the tokens and for every length framed here
HEADER_SIZE == 4
\* cfg.BUFFER_SIZE: the most bytes one recv of the body asks for
BUFFER_SIZE == 2

Digits == <<"0", "1", "2", "3", "4", "5", "6", "7", "8", "9">>

\* str(n) of a non-negative integer, as f"{len(msg)}" writes it
RECURSIVE str(_)
str(n) == IF n < 10 THEN <<Digits[n + 1]>>
          ELSE str(n \div 10) \o <<Digits[(n % 10) + 1]>>

RECURSIVE spaces(_)
spaces(n) == IF n <= 0 THEN <<>> ELSE <<" ">> \o spaces(n - 1)

\* f"{s:<{width}}": left-justified, padded with spaces, never cut
ljust(s, width) == s \o spaces(width - Len(s))

\* bytes.strip() as int() applies it: no spaces at either end
RECURSIVE strip(_)
strip(s) == IF s = <<>> THEN s
            ELSE IF Head(s) = " " THEN strip(Tail(s))
            ELSE IF s[Len(s)] = " " THEN strip(SubSeq(s, 1, Len(s) - 1))
            ELSE s

DigitValue(d) == CHOOSE v \in 0..9 : Digits[v + 1] = d

RECURSIVE decimal(_)
decimal(s) == IF s = <<>> THEN 0
              ELSE 10 * decimal(SubSeq(s, 1, Len(s) - 1)) + DigitValue(s[Len(s)])

ValueError == -1

\* int(msg[:cfg.HEADER_SIZE]): the decimal number between spaces, or ValueError
int(s) ==
    LET t == strip(s)
    IN  IF t # <<>> /\ \A i \in DOMAIN t : \E v \in 0..9 : Digits[v + 1] = t[i]
        THEN decimal(t)
        ELSE ValueError

\* ---- objects and their pickles
\* what a caller gets: a bytes object, None, the 'ACK' string, or an exception
NoneObj == [t |-> "None", v |-> <<>>]
BytesObj(v) == [t |-> "bytes", v |-> v]
AckSignal == [t |-> "ACK", v |-> <<>>]
Raised == [t |-> "raise", v |-> <<>>]

DataBytes == {"a", "b"}

\* the objects the peer frames: None and the byte strings up to MaxObjLen
Objs ==
    {NoneObj} \cup
    {BytesObj(v) : v \in UNION {[1..n -> DataBytes] : n \in 0..MaxObjLen}}

PROTO == "<80>"
STOP == "."

\* pickle.dumps(obj): PROTO, the opcode of the value, STOP
pickle_dumps(obj) ==
    IF obj.t = "None" THEN <<PROTO, "N", STOP>>
    ELSE <<PROTO, "C">> \o obj.v \o <<STOP>>

\* pickle.loads(msg): the object, or an exception when msg is not a pickle
pickle_loads(msg) ==
    IF Len(msg) >= 3 /\ msg[1] = PROTO /\ msg[Len(msg)] = STOP
    THEN IF msg[2] = "N" /\ Len(msg) = 3 THEN NoneObj
         ELSE IF msg[2] = "C" /\ \A i \in 3..(Len(msg) - 1) : msg[i] \in DataBytes
              THEN BytesObj(SubSeq(msg, 3, Len(msg) - 1))
              ELSE Raised
    ELSE Raised

\* the bytes send_object hands to sock.sendall
send_object(obj, ping, pong, ack) ==
    IF ping THEN ljust(<<"P", "I", "N", "G">>, HEADER_SIZE)
    ELSE IF pong THEN ljust(<<"P", "O", "N", "G">>, HEADER_SIZE)
    ELSE IF ack THEN ljust(<<"A", "C", "K">>, HEADER_SIZE)
    ELSE LET msg == pickle_dumps(obj)
         IN  ljust(str(Len(msg)), HEADER_SIZE) \o msg

\* a receiver that does not acknowledge
send_ack_skipped(back) == back

\* send_ack(sock): the ACK token is written back on the same socket
send_ack(back) == back \o send_object(NoneObj, FALSE, FALSE, TRUE)

\* a body recv that asks for a full buffer whatever is still missing
recv_size_unbounded(l, msglen) == BUFFER_SIZE

\* min(cfg.BUFFER_SIZE, msglen - l)
recv_size(l, msglen) == IF BUFFER_SIZE <= msglen - l THEN BUFFER_SIZE ELSE msglen - l

\* what a peer that does not use send_object can write: headers that are no
\* token and no number, a header cut short, and well-framed bodies that are
\* not a pickle
RawWrites ==
    { ljust(<<"1", "x">>, HEADER_SIZE),
      spaces(HEADER_SIZE),
      <<"3">>,
      ljust(str(0), HEADER_SIZE),
      ljust(str(2), HEADER_SIZE) \o <<"a", "b">> }

Frame(kind, obj, bytes) == [kind |-> kind, obj |-> obj, bytes |-> bytes]

\* the peer writes one more frame: sock.sendall(msg) of send_object
peer_writes(f) ==
    /\ chan.up
    /\ Len(whist.sent) < MaxFrames
    /\ chan' = [chan EXCEPT !.bytes = @ \o f.bytes]
    /\ whist' = [whist EXCEPT !.sent = Append(@, f)]
    /\ UNCHANGED rcv
    /\ UNCHANGED <<sysVars, bufVars, actorVars, acceptVars>>

peer_send_object ==
    \E obj \in Objs : peer_writes(Frame("obj", obj, send_object(obj, FALSE, FALSE, FALSE)))

peer_send_ack ==
    peer_writes(Frame("ack", AckSignal, send_object(NoneObj, FALSE, FALSE, TRUE)))

peer_send_ping ==
    \E pong \in BOOLEAN :
        peer_writes(Frame("ping", NoneObj, send_object(NoneObj, ~pong, pong, FALSE)))

peer_writes_raw ==
    \E bytes \in RawWrites : peer_writes(Frame("raw", NoneObj, bytes))

\* the connection is closed or breaks: some of the unread bytes had arrived
channel_lost ==
    /\ chan.up
    /\ \E n \in 0..Len(chan.bytes) :
          chan' = [chan EXCEPT !.up = FALSE, !.bytes = SubSeq(@, 1, n)]
    /\ UNCHANGED <<rcv, whist>>
    /\ UNCHANGED <<sysVars, bufVars, actorVars, acceptVars>>

\* ---- the receiving thread
\* history: one result of poll_and_recv_or_close_socket, with the header read,
\* the body read (full: all msglen bytes were read) and the bytes read so far
Result(t, v, header) ==
    [t |-> t, v |-> v, header |-> header,
     body |-> IF rcv.pc \in {"body", "loads"} THEN rcv.msg ELSE <<>>,
     full |-> rcv.pc = "loads",
     end |-> whist.read]

\* poll_and_recv_or_close_socket returns (True, obj): the loop goes on
returns_object(obj) ==
    /\ rcv' = [rcv EXCEPT !.pc = "select"]
    /\ whist' = [whist EXCEPT !.returned = Append(@, Result(obj.t, obj.v, whist.header))]

\* recv_object returns None: conn.close(), (False, None), the loop is left
returns_lost(header) ==
    /\ rcv' = [rcv EXCEPT !.pc = "out", !.conn = "closed", !.thread = "left"]
    /\ whist' = [whist EXCEPT !.returned = Append(@, Result("lost", <<>>, header))]

\* an exception leaves recv_object, poll_and_recv_or_close_socket and the
\* function of the thread: no handler for it on the way
raises(header) ==
    /\ rcv' = [rcv EXCEPT !.pc = "out", !.thread = "raised"]
    /\ whist' = [whist EXCEPT !.returned = Append(@, Result("raise", <<>>, header))]

Receiving(pc) == rcv.thread = "running" /\ rcv.pc = pc

\* select finds the socket readable (data, or the end of the stream):
\* recv_object is entered
poll_readable ==
    /\ Receiving("select")
    /\ chan.bytes # <<>> \/ ~chan.up
    /\ rcv' = [rcv EXCEPT !.pc = "header", !.msg = <<>>, !.msglen = 0]
    /\ whist' = [whist EXCEPT !.header = <<>>]
    /\ UNCHANGED chan
    /\ UNCHANGED <<sysVars, bufVars, actorVars, acceptVars>>

\* sock.recv(n) delivers k bytes
recv(n, k) ==
    /\ k \in 1..n /\ k <= Len(chan.bytes)
    /\ chan' = [chan EXCEPT !.bytes = SubSeq(@, k + 1, Len(@))]

\* one sock.recv of the header loop
recv_header ==
    /\ Receiving("header")
    /\ IF chan.bytes # <<>>
       THEN \E k \in 1..HEADER_SIZE :
               LET msg == rcv.msg \o SubSeq(chan.bytes, 1, k)
               IN  /\ recv(HEADER_SIZE - Len(rcv.msg), k)
                   /\ rcv' = [rcv EXCEPT !.msg = msg,
                                         !.pc = IF Len(msg) = HEADER_SIZE
                                                THEN "parse" ELSE "header"]
                   /\ whist' = [whist EXCEPT !.header = msg, !.read = @ + k]
       ELSE \* b'' from a closed connection, or OSError (closed, or timed out)
            /\ returns_lost(rcv.msg)
            /\ UNCHANGED chan
    /\ UNCHANGED <<sysVars, bufVars, actorVars, acceptVars>>

\* the header is complete: the ACK test, then int()
recv_parse ==
    /\ Receiving("parse")
    /\ IF SubSeq(rcv.msg, 1, 3) = <<"A", "C", "K">>
       THEN returns_object(AckSignal)
       ELSE LET msglen == int(SubSeq(rcv.msg, 1, HEADER_SIZE))
            IN  IF msglen = ValueError
                THEN raises(rcv.msg)
                ELSE /\ rcv' = [rcv EXCEPT !.msg = <<>>, !.msglen = msglen,
                                           !.pc = IF msglen = 0 THEN "ack" ELSE "body"]
                     /\ whist' = [whist EXCEPT !.got = IF msglen = 0 THEN @ + 1 ELSE @]
    /\ UNCHANGED chan
    /\ UNCHANGED <<sysVars, bufVars, actorVars, acceptVars>>

\* one sock.recv of the body loop
recv_body ==
    /\ Receiving("body")
    /\ IF chan.bytes # <<>>
       THEN \E k \in 1..BUFFER_SIZE :
               LET msg == rcv.msg \o SubSeq(chan.bytes, 1, k)
               IN  /\ recv(recv_size(Len(rcv.msg), rcv.msglen), k)
                   /\ rcv' = [rcv EXCEPT !.msg = msg,
                                         !.pc = IF Len(msg) = rcv.msglen
                                                THEN "ack" ELSE "body"]
                   /\ whist' = [whist EXCEPT !.read = @ + k,
                                     !.got = IF Len(msg) = rcv.msglen THEN @ + 1 ELSE @]
       ELSE /\ returns_lost(whist.header)
            /\ UNCHANGED chan
    /\ UNCHANGED <<sysVars, bufVars, actorVars, acceptVars>>

\* send_ack(sock) once the body is complete; its result is not looked at
recv_ack ==
    /\ Receiving("ack")
    /\ chan' = [chan EXCEPT !.back = send_ack(@)]
    /\ rcv' = [rcv EXCEPT !.pc = "loads"]
    /\ UNCHANGED whist
    /\ UNCHANGED <<sysVars, bufVars, actorVars, acceptVars>>

\* a poll that hands on whatever recv_object returned
none_is_data(obj) == FALSE

\* "if obj is None" of poll_and_recv_or_close_socket
obj_is_none(obj) == obj = NoneObj

\* return pickle.loads(msg), and what poll_and_recv_or_close_socket makes of it
recv_loads ==
    /\ Receiving("loads")
    /\ LET obj == pickle_loads(rcv.msg)
       IN  IF obj = Raised THEN raises(whist.header)
           ELSE IF obj_is_none(obj) THEN returns_lost(whist.header)
           ELSE returns_object(obj)
    /\ UNCHANGED chan
    /\ UNCHANGED <<sysVars, bufVars, actorVars, acceptVars>>

InitWire ==
    /\ chan = [bytes |-> <<>>, up |-> TRUE, back |-> <<>>]
    /\ rcv = [pc |-> "select", msg |-> <<>>, msglen |-> 0, conn |-> "open",
              thread |-> "running"]
    /\ whist = [sent |-> <<>>, returned |-> <<>>, header |-> <<>>, read |-> 0, got |-> 0]

NextWire ==
    \/ peer_send_object
    \/ peer_send_ack
    \/ peer_send_ping
    \/ peer_writes_raw
    \/ channel_lost
    \/ poll_readable
    \/ recv_header
    \/ recv_parse
    \/ recv_body
    \/ recv_ack
    \/ recv_loads

(***************************************************************************)
(* Server.__trainers_thread and Server.__rollout_workers_thread: the two   *)
(* accept loops, each taken by itself.  A loop opens a listening socket,   *)
(* waits in accept, and either starts a handler thread for the connection  *)
(* and closes the listening socket, or has the socket closed by            *)
(* accept_or_close_socket and starts over.                                 *)
(***************************************************************************)
\* a loop that leaves its listening socket open
s_left_open(listening) == listening

\* s.close() on the listening socket
s_close(listening) == listening - 1

\* a client's connect() completes: the connection waits to be accepted
client_connects(r) ==
    /\ acc[r].arrived < MaxArrivals
    /\ acc[r].listening > 0
    /\ acc' = [acc EXCEPT ![r].arrived = @ + 1, ![r].backlog = @ + 1]
    /\ UNCHANGED <<sysVars, bufVars, wireVars, actorVars>>

\* s = get_listening_socket(...): socket, bind, listen
get_listening_socket(r) ==
    /\ acc[r].pc = "listen"
    /\ acc' = [acc EXCEPT ![r].pc = "accept", ![r].listening = @ + 1]
    /\ UNCHANGED <<sysVars, bufVars, wireVars, actorVars>>

\* conn, addr = accept_or_close_socket(s).  accept returns a waiting
\* connection; with none waiting it times out; it can also raise with a
\* connection waiting.  On OSError the listening socket is closed, with
\* what still waits on it, the thread sleeps, and None is returned:
\* "continue".
accept_or_close_socket(r) ==
    /\ acc[r].pc = "accept"
    /\ \/ /\ acc[r].backlog > 0
          /\ acc' = [acc EXCEPT ![r].pc = "start", ![r].backlog = @ - 1,
                                ![r].accepted = @ + 1]
       \/ /\ acc[r].backlog = 0
          /\ acc' = [acc EXCEPT ![r].pc = "listen",
                                ![r].listening = s_close(@)]
       \/ /\ acc[r].backlog > 0
          /\ acc[r].errors < MaxAcceptErrors
          /\ acc' = [acc EXCEPT ![r].pc = "listen", ![r].backlog = 0,
                                ![r].listening = s_close(@), ![r].errors = @ + 1]
    /\ UNCHANGED <<sysVars, bufVars, wireVars, actorVars>>

\* Thread(target=..., args=(conn, )).start(), then s.close()
start_handler_thread(r) ==
    /\ acc[r].pc = "start"
    /\ acc' = [acc EXCEPT ![r].pc = "listen", ![r].backlog = 0,
                          ![r].threads = Append(@, acc[r].accepted),
                          ![r].listening = s_close(@)]
    /\ UNCHANGED <<sysVars, bufVars, wireVars, actorVars>>

InitAccept ==
    acc = [r \in Roles |-> [pc |-> "listen", listening |-> 0, backlog |-> 0,
                            arrived |-> 0, accepted |-> 0, threads |-> <<>>,
                            errors |-> 0]]

NextAccept ==
    \/ \E r \in Roles : client_connects(r)
    \/ \E r \in Roles : get_listening_socket(r)
    \/ \E r \in Roles : accept_or_close_socket(r)
    \/ \E r \in Roles : start_handler_thread(r)

(***************************************************************************)
InitSys ==
    /\ srvBuffer = Buffer(BUFFERS_MAXLEN)
    /\ srvWeights = 0
    /\ srvWeightsId = 0
    /\ lock = [srvB |-> NoOwner, srvW |-> NoOwner, tiB |-> NoOwner, tiW |-> NoOwner,
               rwB |-> NoOwner, rwW |-> NoOwner]
    /\ h = [c \in Conn |-> IdleHandler]
    /\ sock = [c \in Conn |-> [cli |-> FALSE, srv |-> FALSE, ok |-> TRUE]]
    /\ inbox = [c \in Conn |-> [cli |-> <<>>, srv |-> <<>>]]
    /\ cl = [r \in Roles |-> DisconnectedClient]
    /\ tiWeights = 0
    /\ tiBuffer = Buffer(BUFFERS_MAXLEN)
    /\ rwBuffer = Buffer(BUFFERS_MAXLEN)
    /\ rwWeights = NoWeights
    /\ hist = [bcast |-> 0, nsamples |-> 0, faults |-> 0,
               sentW |-> [s \in SampleIds |-> 0], mergedS |-> [s \in SampleIds |-> 0],
               sentS |-> [s \in SampleIds |-> 0], mergedT |-> [s \in SampleIds |-> 0],
               sentT |-> [b \in BlobIds |-> 0], sentV |-> [v \in BlobIds |-> 0],
               lastVer |-> 0, applied |-> 0, offlineVer |-> 0, failed |-> <<>>,
               retrieved |-> [s \in SampleIds |-> 0], retStats |-> Stats(Buffer(0)),
               fresh |-> FALSE, busyRecv |-> FALSE]

InitUnit ==
    /\ ubuf = Buffer(0)
    /\ uadded = <<>>
    /\ uop = [op |-> "init", pre |-> Buffer(0), arg |-> Buffer(0)]
    /\ unext = 1

\* the worker is constructed with this model_history
InitHistory(history) ==
    /\ model_history = history
    /\ cur_hist_cpt = 0
    /\ model_path_history = <<>>
    /\ nupdates = 0

Init == InitSys /\ InitUnit /\ InitWire /\ InitHistory(0) /\ InitAccept

InitActor ==
    /\ InitSys /\ InitUnit /\ InitWire /\ InitAccept
    /\ \E history \in 0..MaxHistory : InitHistory(history)

NextActor == weights_arrive \/ update_actor_weights

InitBuf ==
    /\ InitSys
    /\ InitWire
    /\ InitHistory(0)
    /\ InitAccept
    /\ \E maxlen \in 0..MaxCap : ubuf = Buffer(maxlen)
    /\ uadded = <<>>
    /\ uop = [op |-> "init", pre |-> ubuf, arg |-> Buffer(0)]
    /\ unext = 1

Next ==
    \/ \E c \in Conn : trainer_thread_iter(c)
    \/ \E c \in Conn : trainer_thread_send(c)
    \/ \E c \in Conn : trainer_thread_clear(c)
    \/ \E c \in Conn : trainer_thread_poll(c)
    \/ \E c \in Conn : trainer_thread_store(c)
    \/ \E c \in Conn : rollout_worker_thread_iter(c)
    \/ \E c \in Conn : rollout_worker_thread_send(c)
    \/ \E c \in Conn : rollout_worker_thread_poll(c)
    \/ \E c \in Conn : rollout_worker_thread_store(c)
    \/ \E r \in Roles : connect(r)
    \/ \E r \in Roles : connect_failed(r)
    \/ trainer_interface_iter
    \/ trainer_interface_send
    \/ trainer_interface_clear
    \/ trainer_interface_poll
    \/ broadcast_model
    \/ retrieve_buffer
    \/ rollout_worker_iter
    \/ rollout_worker_send
    \/ rollout_worker_poll
    \/ send_and_clear_buffer
    \/ update_actor_weights
    \/ \E c \in Conn : link_breaks(c)
    \/ \E c \in Conn : handler_ack_time_passes(c)
    \/ \E r \in Roles : client_ack_time_passes(r)
    \/ \E r \in Roles : client_recv_time_passes(r)

Spec == Init /\ [][Next]_vars

SpecBuf == InitBuf /\ [][NextBuf]_vars

SpecWire == Init /\ [][NextWire]_vars

SpecActor == InitActor /\ [][NextActor]_vars

\* every thread of the program keeps running: a step it can take is taken
Fairness ==
    /\ \A c \in Conn :
          /\ WF_vars(trainer_thread_iter(c))
          /\ WF_vars(trainer_thread_send(c))
          /\ WF_vars(trainer_thread_clear(c))
          /\ WF_vars(trainer_thread_poll(c))
          /\ WF_vars(trainer_thread_store(c))
          /\ WF_vars(rollout_worker_thread_iter(c))
          /\ WF_vars(rollout_worker_thread_send(c))
          /\ WF_vars(rollout_worker_thread_poll(c))
          /\ WF_vars(rollout_worker_thread_store(c))
    /\ \A r \in Roles : WF_vars(connect(r))
    /\ WF_vars(trainer_interface_iter)
    /\ WF_vars(trainer_interface_send)
    /\ WF_vars(trainer_interface_clear)
    /\ WF_vars(trainer_interface_poll)
    /\ WF_vars(rollout_worker_iter)
    /\ WF_vars(rollout_worker_send)
    /\ WF_vars(rollout_worker_poll)
    /\ WF_vars(update_actor_weights)

LiveSpec == Init /\ [][Next]_vars /\ Fairness

\* the accept loops keep running: no call of theirs blocks for ever
FairAccept ==
    \A r \in Roles :
        /\ WF_vars(get_listening_socket(r))
        /\ WF_vars(accept_or_close_socket(r))
        /\ WF_vars(start_handler_thread(r))

SpecAccept == Init /\ [][NextAccept]_vars /\ FairAccept

(***************************************************************************)
(* Properties                                                              *)
(***************************************************************************)
Min(a, b) == IF a <= b THEN a ELSE b

\* the last n entries of s (all of s when it is shorter)
LastN(s, n) == SubSeq(s, (Len(s) - Min(n, Len(s))) + 1, Len(s))

\* C2: after any sequence of append_sample, += and clear, the Buffer is never
\* longer than maxlen and holds exactly the most recently added entries since
\* the last clear, in the order they were added.
BufferKeepsMostRecent ==
    /\ len(ubuf) <= ubuf.maxlen
    /\ ubuf.memory = LastN(uadded, ubuf.maxlen)

\* C2 witness: an append and a merge have both overflowed a Buffer of capacity 2,
\* which has dropped its oldest entries
BufferOverflowed ==
    /\ ubuf.maxlen = 2
    /\ Len(uadded) = 4
    /\ len(ubuf) = 2
    /\ uop.op = "merge"
    /\ len(uop.pre) = 2
    /\ len(uop.arg) = 1

\* C3: after A += B, A's memory is A's former memory followed by B's, cut from
\* the front to A's maxlen, and each of A's four statistics is B's, whatever
\* A's was before.
MergeIsCappedConcatWithStatsOfOther ==
    uop.op = "merge" =>
        /\ ubuf.memory = LastN(uop.pre.memory \o uop.arg.memory, uop.pre.maxlen)
        /\ ubuf.maxlen = uop.pre.maxlen
        /\ Stats(ubuf) = Stats(uop.arg)

\* C3 witness: a merge that overflowed, into a Buffer whose statistics were
\* not all zero and differ from the merged buffer's
MergeOverwroteStats ==
    /\ uop.op = "merge"
    /\ Len(uop.pre.memory) + Len(uop.arg.memory) > uop.pre.maxlen
    /\ len(uop.arg) > 0
    /\ len(uop.pre) > 0
    /\ uop.pre.stat_train_return = 1
    /\ uop.arg.stat_train_return = 0
    /\ uop.pre.stat_test_steps = 0
    /\ uop.arg.stat_test_steps = 1
    /\ ubuf.stat_train_return = 0
    /\ ubuf.stat_test_steps = 1

Range(seq) == {seq[i] : i \in DOMAIN seq}

IsPrefix(s, t) == Len(s) <= Len(t) /\ SubSeq(t, 1, Len(s)) = s

\* the locks a thread holds
Held(thread) == {l \in DOMAIN lock : lock[l] = thread}

\* C1: on every connection and in each direction at most one payload is
\* unacknowledged: a sender with a payload outstanding is waiting for its ACK,
\* and sends nothing more before the ACK has been received.
AtMostOneOutstanding ==
    /\ \A c \in Conn : h[c].out \in {0, 1} /\ (h[c].out = 1 => h[c].wait_ack)
    /\ \A r \in Roles : cl[r].out \in {0, 1} /\ (cl[r].out = 1 => cl[r].wait_ack)

\* C1 witness: a second payload is outstanding on a connection whose first
\* payload has been acknowledged, at the relay and at a client
SecondPayloadOutstanding ==
    /\ \E c \in Conn : h[c].nsent = 2 /\ h[c].out = 1
    /\ \E r \in Roles : cl[r].nsent = 2 /\ cl[r].out = 1

\* C4: the relay versions of the weights a worker receives never decrease,
\* across broadcasts, trainer connections and worker reconnections.
WorkerVersionsNonDecreasing == [][hist'.lastVer >= hist.lastVer]_vars

\* C4 witness: the worker applied version 1, lost a connection, and then
\* received version 2
WorkerReceivedTwoVersions ==
    /\ hist.applied = 1
    /\ hist.lastVer = 2
    /\ hist.faults = 1

\* C5 (as the specification states it): a thread inside
\* select_and_send_or_close_socket holds no buffer lock and no weights lock.
NoLockHeldInNetworkCall ==
    /\ \A c \in Conn : h[c].pc = "sending" => Held(Handler(c)) = {}
    /\ \A r \in Roles : cl[r].pc = "sending" => Held(Client(r)) = {}

\* C6: when the relay's trainer handler has sent, the payload is the whole
\* aggregate as it is when the send returns, the clear that follows leaves
\* the aggregate empty with the ACK still to come, and every sample merged
\* into the aggregate is either still in it or was in a payload sent.
TrainerHandlerSendsWholeAggregate ==
    [][/\ \A c \in Conn :
            /\ (c[1] = "T" /\ h'[c].pc = "sent") =>
                    /\ h'[c].obj.buf.memory = srvBuffer'.memory
                    /\ Held(Handler(c))' = {"srvB"}
            /\ (c[1] = "T" /\ h[c].pc = "sent" /\ h'[c].pc # "sent") =>
                    /\ srvBuffer'.memory = <<>>
                    /\ h'[c].pc = "poll" /\ h'[c].wait_ack /\ h'[c].out = 1
       /\ \A s \in SampleIds :
            hist'.mergedS[s] >= 1 =>
                s \in Range(srvBuffer'.memory) \/ hist'.sentS[s] >= 1]_vars

\* C6 witness: the trainer handler has sent a payload and not yet cleared,
\* while a worker handler waits for the buffer lock with a sample to merge
MergeWaitsForClear ==
    \E c \in Conn, w \in Conn :
        /\ c[1] = "T" /\ h[c].pc = "sent"
        /\ len(h[c].obj.buf) >= 1
        /\ w[1] = "W" /\ h[w].pc = "store"
        /\ len(h[w].obj.buf) >= 1

\* C7 (amended): no sample is sent twice by the worker or by the relay, or
\* merged twice into the relay aggregate or the trainer's received buffer,
\* and the trainer-side client sends no broadcast twice.
NoSampleOrBroadcastResent ==
    /\ \A s \in SampleIds :
          /\ hist.sentW[s] <= 1 /\ hist.mergedS[s] <= 1
          /\ hist.sentS[s] <= 1 /\ hist.mergedT[s] <= 1
    /\ \A b \in BlobIds : hist.sentT[b] <= 1

\* C7 (as the specification states it): no payload at all is sent twice,
\* the relay's weights included.
NoPayloadResent ==
    /\ NoSampleOrBroadcastResent
    /\ \A v \in BlobIds : hist.sentV[v] <= 1

\* C7 witness: a sample the worker sent was lost on the way, the worker has
\* reconnected, and the sample is not in its buffer to be sent again
LostSampleNotResent ==
    /\ hist.sentW[1] = 1
    /\ hist.mergedS[1] = 0
    /\ hist.faults = 1
    /\ cl["W"].pc = "loop"
    /\ \A c \in Conn : inbox[c].srv = <<>> /\ h[c].pc # "store"
    /\ rwBuffer.memory = <<>>

\* a client has an outbound object ready
Ready(r) == IF r = "T" THEN tiWeights # 0 ELSE len(rwBuffer) >= samples_per_worker_batch

\* one iteration of a client's inner loop, from its top
ClientIter(r) == IF r = "T" THEN trainer_interface_iter ELSE rollout_worker_iter

SendFailureKeepsPayload ==
    [][/\ cl'["W"].left = "send_failed" =>
            /\ cl'["W"].pc = "connect"
            /\ \A k \in Slots : ~sock'[<<"W", k>>].cli
            /\ Held(Client("W"))' = {}
       /\ hist'.failed # <<>> =>
            /\ IsPrefix(hist'.failed, rwBuffer'.memory)
            /\ cl'["W"].pc = "loop" =>
                    may_send(cl'["W"].wait_ack) /\ Ready("W")'
       /\ (hist.failed # <<>> /\ hist'.failed = <<>>) =>
            /\ cl["W"].pc = "sending" /\ cl'["W"].pc = "poll"
            /\ rwBuffer'.memory = <<>>
            /\ \A s \in Range(hist.failed) : hist'.sentW[s] = hist.sentW[s] + 1]_vars

\* C9 witness: a send failed and the worker is connected again with the
\* samples of the failed send still queued
FailedPayloadQueuedOnNextConnection ==
    /\ hist.failed # <<>>
    /\ cl["W"].pc = "loop"
    /\ sock[CurConn("W")].cli /\ sock[CurConn("W")].srv /\ sock[CurConn("W")].ok

\* C10: when version N was stored at the relay while the worker was not
\* connected, the worker, whose threads keep running, eventually applies
\* version N or a later one; and the versions it applies never decrease.
WorkerCatchesUp ==
    /\ \A N \in BlobIds : (hist.offlineVer = N) ~> (hist.applied >= N)
    /\ [][hist'.applied >= hist.applied]_vars

\* C10 witness: the worker lost its connection, version 2 reached the relay
\* while it was away, and it has applied version 2
WorkerAppliedOfflineVersion ==
    /\ hist.faults = 1
    /\ hist.offlineVer = 2
    /\ hist.applied = 2

(***************************************************************************)
(* C11: broadcast_model replaces a staged blob that was not sent yet.      *)
(* Every blob the trainer-side client transmits is the blob of the most    *)
(* recent broadcast_model call completed before the send; a staged blob    *)
(* leaves the slot only after its successful send or by a newer broadcast, *)
(* so the newest broadcast is always either staged or already sent.        *)
(***************************************************************************)
StagedWeightsSentOrReplaced ==
    [][ /\ \A b \in BlobIds : hist'.sentT[b] > hist.sentT[b] => b = hist.bcast
        /\ (tiWeights # 0 /\ tiWeights' # tiWeights) =>
                \/ tiWeights' = 0 /\ hist.sentT[tiWeights] >= 1
                \/ broadcast_model /\ tiWeights' = hist'.bcast
        /\ hist'.bcast >= 1 =>
                (tiWeights' = hist'.bcast \/ hist'.sentT[hist'.bcast] >= 1) ]_vars

\* the second broadcast replaced the first before it was sent, and was sent itself
ReplacedBlobNeverSent ==
    /\ hist.bcast = 2
    /\ hist.sentT[1] = 0 /\ hist.sentT[2] = 1
    /\ tiWeights = 0

\* how many times sample s occurs in a memory
Occurrences(s, mem) == Cardinality({i \in DOMAIN mem : mem[i] = s})

(***************************************************************************)
(* C12: retrieve_buffer is an atomic consume-and-reset.  A call returns    *)
(* exactly the samples and the statistics the received buffer holds at     *)
(* that instant and leaves it with zero samples; a sample merged into the  *)
(* received buffer is returned by at most one call and, until then, is     *)
(* still in the buffer (the buffer never overflows within the bounds).     *)
(***************************************************************************)
RetrieveBufferConsumesOnce ==
    [][ /\ retrieve_buffer =>
              /\ len(tiBuffer') = 0
              /\ hist'.retStats = Stats(tiBuffer)
              /\ \A s \in SampleIds :
                    hist'.retrieved[s] - hist.retrieved[s] = Occurrences(s, tiBuffer.memory)
        /\ \A s \in SampleIds :
              /\ hist'.retrieved[s] <= 1
              /\ hist'.mergedT[s] = hist'.retrieved[s] + Occurrences(s, tiBuffer'.memory) ]_vars

\* every sample was merged and returned, the last non-empty copy carried the
\* statistics of a one-step episode, and the received buffer is empty again
AllSamplesRetrieved ==
    /\ \A s \in SampleIds : hist.retrieved[s] = 1
    /\ hist.retStats.stat_train_steps = 1
    /\ len(tiBuffer) = 0

(***************************************************************************)
(* C13: update_actor_weights takes the pending blob atomically.  With an   *)
(* empty slot it changes nothing; otherwise it applies the blob in the     *)
(* slot, which is the most recently received one, and empties the slot.    *)
(* A received blob is applied at most once: a load happens only when a     *)
(* blob was received since the previous load.                              *)
(***************************************************************************)
PendingWeightsAppliedOnce ==
    [][ /\ update_actor_weights =>
              IF rwWeights = NoWeights
              THEN rwWeights' = rwWeights /\ hist' = hist
              ELSE /\ hist.fresh
                   /\ rwWeights.ver = hist.lastVer
                   /\ hist'.applied = rwWeights.ver
                   /\ rwWeights' = NoWeights
        /\ rwWeights' # NoWeights => rwWeights'.ver = hist'.lastVer ]_vars

\* the worker loaded the second version, and nothing is pending
WorkerLoadedLatestAndSlotEmpty ==
    /\ hist.lastVer = 2 /\ hist.applied = 2
    /\ rwWeights = NoWeights /\ ~hist.fresh

\* n ACK tokens in a row
RECURSIVE AckTokens(_)
AckTokens(n) ==
    IF n <= 0 THEN <<>> ELSE send_object(NoneObj, FALSE, FALSE, TRUE) \o AckTokens(n - 1)

\* the bytes of the first k frames the peer wrote
RECURSIVE FrameEnd(_)
FrameEnd(k) == IF k = 0 THEN 0 ELSE FrameEnd(k - 1) + Len(whist.sent[k].bytes)

(***************************************************************************)
(* C14: recv_object emits exactly one ACK token back on the same channel   *)
(* for each fully received payload, before the payload is returned, and    *)
(* none for an ACK header or when the connection is lost before the        *)
(* payload is complete: the bytes written back are one ACK token per body  *)
(* completed, less the one that is just about to be written, and a         *)
(* payload is returned only when its token has been written.               *)
(***************************************************************************)
OneAckPerReceivedPayload ==
    [][ /\ chan'.back = AckTokens(whist'.got - (IF rcv'.pc = "ack" THEN 1 ELSE 0))
        /\ Len(whist'.returned) > Len(whist.returned) =>
              LET r == whist'.returned[Len(whist'.returned)]
              IN  /\ chan'.back = chan.back
                  /\ r.full => whist.got >= 1 /\ chan.back = AckTokens(whist.got)
                  /\ ~r.full => whist'.got = Len(whist.returned) -
                                    Cardinality({k \in DOMAIN whist.returned :
                                                    ~whist.returned[k].full}) ]_vars

\* a payload was received and acknowledged, then the connection was lost in
\* the middle of the next body: one ACK token was written, not two
AckedOnceThenLostMidBody ==
    /\ Len(whist.returned) = 2
    /\ whist.returned[1].t = "bytes"
    /\ whist.returned[2].t = "lost" /\ whist.returned[2].body # <<>>
    /\ chan.back = AckTokens(1)

(***************************************************************************)
(* C15: framing a payload with send_object and decoding the byte stream    *)
(* with recv_object yields the identical payload and consumes exactly the  *)
(* header width plus the payload length, whatever the chunks and whatever  *)
(* follows; an ACK header yields the ACK signal and no body byte is read.  *)
(* The body loop never holds more than msglen bytes.                       *)
(***************************************************************************)
FramingRoundTrip ==
    /\ rcv.pc = "body" => Len(rcv.msg) < rcv.msglen
    /\ \A k \in DOMAIN whist.returned :
          LET r == whist.returned[k]
          IN  (/\ k <= Len(whist.sent)
               /\ \A j \in 1..k : whist.sent[j].kind \in {"obj", "ack"}
               /\ r.t # "lost" \/ r.full)
              => /\ r.end = FrameEnd(k)
                 /\ IF whist.sent[k].kind = "ack"
                    THEN r.t = "ACK" /\ r.body = <<>> /\ r.end = FrameEnd(k - 1) + HEADER_SIZE
                    ELSE /\ r.full
                         /\ r.end = FrameEnd(k - 1) + HEADER_SIZE
                                      + Len(pickle_dumps(whist.sent[k].obj))
                         /\ pickle_loads(r.body) = whist.sent[k].obj
                         /\ r.t = "lost" \/ (r.t = whist.sent[k].obj.t /\ r.v = whist.sent[k].obj.v)

\* two different byte strings were framed one after the other and both decoded
TwoFramesDecoded ==
    /\ Len(whist.returned) = 2 /\ Len(whist.sent) = 2
    /\ \A k \in 1..2 : /\ whist.sent[k].kind = "obj"
                        /\ whist.returned[k].t = "bytes"
                        /\ whist.returned[k].v = whist.sent[k].obj.v
    /\ whist.sent[1].obj.v = <<"a">> /\ whist.sent[2].obj.v = <<>>

\* the headers send_object writes with ping or pong set
IsKeepalive(header) ==
    header \in {send_object(NoneObj, TRUE, FALSE, FALSE), send_object(NoneObj, FALSE, TRUE, FALSE)}

\* the receiver is still in its loop on an open socket
StillReceiving == rcv.thread = "running" /\ rcv.conn = "open"

\* the receiver dropped the connection and left its loop in the regular way
DroppedConnection == rcv.thread = "left" /\ rcv.conn = "closed"

(***************************************************************************)
(* C16: a PING or PONG header is recognised and surfaced as a no-op        *)
(* control signal: it is not delivered as data, and the connection and the *)
(* receiving thread go on.  The code has no branch for these headers:      *)
(* they reach int() and the exception ends the thread.                     *)
(***************************************************************************)
KeepaliveIsNoOp ==
    \A k \in DOMAIN whist.returned :
        LET r == whist.returned[k]
        IN  IsKeepalive(r.header) =>
                /\ r.t \notin {"bytes", "raise", "lost"}
                /\ k = Len(whist.returned) => StillReceiving

(***************************************************************************)
(* C17: a short header, or a full header that is neither the ACK token nor *)
(* a decimal length (keepalive tokens aside), is handled like a transport  *)
(* error: the receive reports failure, the socket is closed and the loop   *)
(* is left in the regular way; the receiving thread is not terminated.     *)
(* The code does so for a short header, but an unparsable one raises       *)
(* ValueError out of the thread.                                           *)
(***************************************************************************)
MalformedHeaderDropsConnection ==
    \A k \in DOMAIN whist.returned :
        LET r == whist.returned[k]
            short == Len(r.header) \in 1..(HEADER_SIZE - 1)
            unparsable == /\ Len(r.header) = HEADER_SIZE
                          /\ SubSeq(r.header, 1, 3) # <<"A", "C", "K">>
                          /\ ~IsKeepalive(r.header)
                          /\ int(r.header) = ValueError
        IN  (short \/ unparsable) => r.t = "lost" /\ DroppedConnection

(***************************************************************************)
(* C18: a deserialization failure on a well-framed, fully received payload *)
(* is treated like a transport failure: the connection is dropped and the  *)
(* loop left in the regular way, and the failure does not propagate or     *)
(* terminate the thread.  In the code the exception of pickle.loads        *)
(* leaves recv_object uncaught, after the ACK was written.                 *)
(***************************************************************************)
UnpicklingFailureDropsConnection ==
    \A k \in DOMAIN whist.returned :
        LET r == whist.returned[k]
        IN  (r.full /\ pickle_loads(r.body) = Raised) => r.t = "lost" /\ DroppedConnection

\* the poll of a client's iteration (an iteration that starts a send polls
\* in a later step)
ClientPoll(r) ==
    IF r = "T" THEN (trainer_interface_iter /\ cl'[r].pc # "sending") \/ trainer_interface_poll
    ELSE (rollout_worker_iter /\ cl'[r].pc # "sending") \/ rollout_worker_poll

(***************************************************************************)
(* C19: a client whose last inbound data object is older than the          *)
(* inactivity timeout treats the peer as dead.  The iteration whose poll   *)
(* finds nothing leaves the inner loop and closes the socket, the thread   *)
(* being back at get_connected_socket; and once the timeout has expired    *)
(* the client does get there, unless a data object arrives first.          *)
(***************************************************************************)
InactiveClientReconnects ==
    /\ [][\A r \in Roles :
            (ClientPoll(r) /\ cl[r].recv_old /\ PollResult(CurConn(r), "cli").t = "NONE") =>
                /\ cl'[r].pc = "connect"
                /\ cl'[r].left \in {"recv_timeout", "ack_timeout"}
                /\ \A k \in Slots : ~sock'[<<r, k>>].cli]_vars
    /\ \A r \in Roles :
          (cl[r].pc # "connect" /\ cl[r].recv_old) ~>
              \/ cl[r].pc = "connect" /\ \A k \in Slots : ~sock[<<r, k>>].cli
              \/ cl[r].pc # "connect" /\ ~cl[r].recv_old

\* a client has given up on a silent peer and is about to connect again
ClientLeftOnInactivity ==
    \E r \in Roles :
        /\ cl[r].left = "recv_timeout"
        /\ cl[r].pc = "connect"
        /\ \A k \in Slots : ~sock[<<r, k>>].cli

Incoming(c) == IF h[c].pc = "store" THEN h[c].obj ELSE PollResult(c, "srv")

\* a step of handler c that stores under the weights lock
StoresWeights(c) ==
    /\ c[1] = "T"
    /\ Incoming(c).t = "W"
    /\ lock.srvW = NoOwner
    /\ trainer_thread_iter(c) \/ trainer_thread_poll(c) \/ trainer_thread_store(c)
    /\ h'[c].pc = "loop"

(***************************************************************************)
(* C21: the relay's version counter starts at 0, grows by exactly one with *)
(* every weights blob a trainer handler stores and changes in no other     *)
(* step; the stored blob is always the one stored last, whichever trainer  *)
(* connection it came from, and blob and counter change in the same step,  *)
(* taken with the weights lock free for the storing handler.               *)
(***************************************************************************)
RelayVersionCountsStoredBlobs ==
    /\ (srvWeightsId = 0) = (srvWeights = 0)
    /\ [][ /\ (srvWeightsId' # srvWeightsId \/ srvWeights' # srvWeights) =>
                 \E c \in Conn : StoresWeights(c)
           /\ \A c \in Conn : StoresWeights(c) =>
                 /\ srvWeightsId' = srvWeightsId + 1
                 /\ srvWeights' = Incoming(c).blob
                 /\ lock' = lock ]_vars

\* two trainer connections at once: the blob broadcast first was stored last
\* and is the relay's latest
OlderBroadcastStoredLast ==
    /\ srvWeightsId = 2
    /\ srvWeights = 1

\* a step in which worker handler c has handed the weights to its socket
SendsWeights(c) ==
    /\ c[1] = "W"
    /\ rollout_worker_thread_send(c)
    /\ h'[c].pc = "poll"

(***************************************************************************)
(* C22: a worker handler sends the weights only when the version it has    *)
(* recorded for its connection differs from the relay's; what it sends is  *)
(* the relay's blob and version of that moment and the version it records  *)
(* is that one; the recorded version changes in no other step of the       *)
(* connection, every send is of a version above the recorded one (so no    *)
(* version goes twice over one connection), and the recorded version never *)
(* exceeds the relay's counter.                                            *)
(***************************************************************************)
WorkerHandlerSendsEachVersionOnce ==
    /\ [](\A c \in Conn : h[c].worker_weights_id <= srvWeightsId)
    /\ [][\A c \in Conn :
            /\ SendsWeights(c) =>
                  /\ h[c].worker_weights_id < srvWeightsId
                  /\ h'[c].worker_weights_id = srvWeightsId
                  /\ srvWeightsId' = srvWeightsId /\ srvWeights' = srvWeights
                  /\ (sock[c].cli /\ sock[c].ok) =>
                        inbox'[c].cli = Append(inbox[c].cli, WMsg(srvWeights, srvWeightsId))
            /\ (c[1] = "W" /\ Len(inbox'[c].cli) > Len(inbox[c].cli)
                   /\ inbox'[c].cli[Len(inbox'[c].cli)].t = "W") => SendsWeights(c)
            /\ (h[c].pc # "idle" /\ h'[c].pc # "idle" /\ ~SendsWeights(c)) =>
                  h'[c].worker_weights_id = h[c].worker_weights_id ]_vars

\* one worker connection has been sent version 1 and then version 2
WorkerConnectionSentTwoVersions ==
    \E c \in Conn :
        /\ c[1] = "W"
        /\ h[c].nsent = 2
        /\ h[c].worker_weights_id = 2
        /\ hist.sentV[1] = 1 /\ hist.sentV[2] = 1

\* a step of worker handler c that merges a received buffer under the buffer lock
MergesBuffer(c) ==
    /\ c[1] = "W"
    /\ Incoming(c).t = "BUF"
    /\ lock.srvB = NoOwner
    /\ rollout_worker_thread_iter(c) \/ rollout_worker_thread_poll(c)
         \/ rollout_worker_thread_store(c)
    /\ h'[c].pc = "loop"

\* a step in which the handler of worker connection c ends
WorkerHandlerExits(c) == c[1] = "W" /\ h[c].pc # "idle" /\ h'[c].pc = "idle"

(***************************************************************************)
(* C23: merges of concurrent worker connections are atomic: a merge step   *)
(* appends the whole received buffer, in its order and in one piece, to    *)
(* what the aggregate held (cut to the newest maxlen entries), and the     *)
(* aggregate gains samples in no other step.  The step in which one worker *)
(* handler ends changes neither the aggregate, nor the relay's weights,    *)
(* nor the handler, socket and queue of any other connection, nor a lock   *)
(* held by another thread.                                                 *)
(***************************************************************************)
WorkerMergesAtomicAndIndependent ==
    [][\A c \in Conn :
        /\ MergesBuffer(c) =>
              /\ srvBuffer'.memory =
                    LastN(srvBuffer.memory \o Incoming(c).buf.memory, srvBuffer.maxlen)
              /\ len(srvBuffer) + len(Incoming(c).buf) <= srvBuffer.maxlen =>
                    srvBuffer'.memory = srvBuffer.memory \o Incoming(c).buf.memory
              /\ \A d \in Conn \ {c} : h'[d] = h[d]
        /\ (srvBuffer'.memory # srvBuffer.memory /\ srvBuffer'.memory # <<>>) =>
              \E d \in Conn : MergesBuffer(d)
        /\ WorkerHandlerExits(c) =>
              /\ srvBuffer' = srvBuffer
              /\ srvWeights' = srvWeights /\ srvWeightsId' = srvWeightsId
              /\ \A d \in Conn \ {c} :
                    h'[d] = h[d] /\ sock'[d] = sock[d] /\ inbox'[d] = inbox[d]
              /\ \A l \in DOMAIN lock : lock[l] # Handler(c) => lock'[l] = lock[l] ]_vars

\* two worker connections at once: the buffer sent over the newer one was
\* merged first, the one sent over the older one after it, whole and in
\* order, and the older connection's handler has ended while the newer runs
BuffersOfTwoConnectionsMerged ==
    /\ srvBuffer.memory = <<2, 1>>
    /\ h[<<"W", 1>>].pc = "idle"
    /\ h[<<"W", 2>>].pc \notin {"idle"}

(***************************************************************************)
(* C24: Buffer.clear empties the sample sequence and leaves the four       *)
(* statistics and the capacity as they were; the statistics change in a    *)
(* merge only, so they keep the values of the last merge across appends    *)
(* and clears until the next merge.                                        *)
(***************************************************************************)
ClearKeepsStatsAndCapacity ==
    /\ [](uop.op = "clear" =>
            /\ ubuf.memory = <<>>
            /\ Stats(ubuf) = Stats(uop.pre)
            /\ ubuf.maxlen = uop.pre.maxlen)
    /\ [][(UAppend \/ UClear) =>
            /\ Stats(ubuf') = Stats(ubuf)
            /\ ubuf'.maxlen = ubuf.maxlen ]_vars

\* a Buffer holding samples and the statistics of a merge has been cleared
ClearedAfterMerge ==
    /\ uop.op = "clear"
    /\ len(uop.pre) = 2
    /\ ubuf.maxlen = 2
    /\ ubuf.stat_test_steps = 1
    /\ len(ubuf) = 0

\* a call of update_actor_weights that finds weights pending
AppliesUpdate == update_actor_weights /\ rwWeights # NoWeights

(***************************************************************************)
(* C25: with model_history = N > 0 a history file is written on exactly    *)
(* every N-th applied update and holds the weights of that update, and the *)
(* counter is the number of applied updates modulo N: 0 after each         *)
(* archive, within 0..N-1 always.  With model_history = 0 no file is ever  *)
(* written and the counter stays 0.  A call that finds no weights pending  *)
(* changes neither the counter nor the files.                              *)
(***************************************************************************)
HistoryArchivedEveryNth ==
    /\ [](IF model_history > 0
          THEN /\ cur_hist_cpt \in 0..(model_history - 1)
               /\ cur_hist_cpt = nupdates % model_history
               /\ Len(model_path_history) = nupdates \div model_history
          ELSE /\ cur_hist_cpt = 0
               /\ model_path_history = <<>>)
    /\ [][ /\ (update_actor_weights /\ rwWeights = NoWeights) =>
                 /\ cur_hist_cpt' = cur_hist_cpt
                 /\ model_path_history' = model_path_history
                 /\ nupdates' = nupdates
           /\ AppliesUpdate => nupdates' = nupdates + 1
           /\ model_path_history' # model_path_history =>
                 /\ AppliesUpdate
                 /\ model_path_history' = Append(model_path_history, rwWeights.ver)
                 /\ cur_hist_cpt' = 0 ]_vars

\* model_history = 3: six updates applied, two files written, the counter
\* back at 0
TwoArchivesOfEveryThird ==
    /\ model_history = 3
    /\ nupdates = 6
    /\ Len(model_path_history) = 2
    /\ cur_hist_cpt = 0

\* the step in which a handler's select_and_send_or_close_socket returns
HandlerSend(c) == trainer_thread_send(c) \/ rollout_worker_thread_send(c)

\* the step in which a client's select_and_send_or_close_socket returns
ClientSend(r) == IF r = "T" THEN trainer_interface_send ELSE rollout_worker_send

(***************************************************************************)
(* C26: select_and_send_or_close_socket ends in one of two ways.  Either   *)
(* it returned True: the sockets are as they were, the caller's end is     *)
(* open, one object more is on its way to a peer that is there, and the    *)
(* caller now waits for an ACK with a fresh send time.  Or it returned     *)
(* False: the caller's end is closed, nothing was handed over, and the     *)
(* caller has left its loop without waiting for an ACK.  A thread starts   *)
(* waiting for an ACK in no other step.                                    *)
(***************************************************************************)
SendReturnsTrueOrCloses ==
    [][ /\ \A c \in Conn :
             /\ HandlerSend(c) =>
                   \/ /\ sock' = sock /\ sock[c].srv
                      /\ h'[c].wait_ack /\ ~h'[c].ack_old
                      /\ h'[c].nsent = h[c].nsent + 1
                      /\ h'[c].pc \in {"sent", "poll"}
                      /\ inbox'[c].srv = inbox[c].srv
                      /\ (sock[c].cli /\ sock[c].ok) =>
                            Len(inbox'[c].cli) = Len(inbox[c].cli) + 1
                   \/ /\ ~sock'[c].srv
                      /\ h'[c] = IdleHandler
                      /\ inbox'[c].cli = inbox[c].cli
                      /\ Handler(c) \notin Range(lock')
             /\ (~h[c].wait_ack /\ h'[c].wait_ack) => HandlerSend(c)
       /\ \A r \in Roles :
             /\ ClientSend(r) =>
                   \/ /\ sock' = sock /\ sock[CurConn(r)].cli
                      /\ cl'[r].wait_ack /\ ~cl'[r].ack_old
                      /\ cl'[r].nsent = cl[r].nsent + 1
                      /\ cl'[r].pc \in {"sent", "poll"}
                      /\ inbox'[CurConn(r)].cli = inbox[CurConn(r)].cli
                      /\ (sock[CurConn(r)].srv /\ sock[CurConn(r)].ok) =>
                            Len(inbox'[CurConn(r)].srv) = Len(inbox[CurConn(r)].srv) + 1
                   \/ /\ ~sock'[CurConn(r)].cli
                      /\ cl'[r] = Left("send_failed")
                      /\ inbox'[CurConn(r)].srv = inbox[CurConn(r)].srv
                      /\ Client(r) \notin Range(lock')
             /\ (~cl[r].wait_ack /\ cl'[r].wait_ack) => ClientSend(r) ]_vars

\* a send of the worker has failed and closed its socket while the relay's
\* handler of the trainer connection, whose send returned True, awaits its ACK
OneSendFailedOneSucceeded ==
    /\ cl["W"].left = "send_failed"
    /\ cl["W"].pc = "connect"
    /\ \A k \in Slots : ~sock[<<"W", k>>].cli
    /\ \E k \in Slots : h[<<"T", k>>].wait_ack /\ sock[<<"T", k>>].srv

\* a handler has a new outbound object ready
HandlerReady(c) ==
    IF c[1] = "T" THEN len(srvBuffer) >= samples_per_server_batch
    ELSE weights_are_new(h[c].worker_weights_id, srvWeightsId)

\* one iteration of a handler's loop, from its top
HandlerIter(c) == trainer_thread_iter(c) \/ rollout_worker_thread_iter(c)

HandlerPoll(c) == trainer_thread_poll(c) \/ rollout_worker_thread_poll(c)

\* the poll has taken the object at the head of the queue, if there is one
Received(c, side) ==
    PollResult(c, side).t \notin {"NONE", "LOST"} =>
        inbox'[c][side] = Tail(inbox[c][side])

\* a payload the handler's poll found is stored or merged, or the handler
\* holds it while it waits for the lock
HandlerStored(c) ==
    LET r == PollResult(c, "srv")
    IN  r.t \in {"W", "BUF"} =>
            \/ h'[c].pc = "store" /\ h'[c].obj = r
            \/ /\ c[1] = "T"
               /\ srvWeights' = r.blob /\ srvWeightsId' = srvWeightsId + 1
            \/ /\ c[1] = "W"
               /\ srvBuffer' = iadd(srvBuffer, r.buf)

\* a payload the client's poll found is merged or becomes the pending weights
ClientStored(r) ==
    LET m == PollResult(CurConn(r), "cli")
    IN  m.t \in {"W", "BUF"} =>
            IF r = "T" THEN tiBuffer' = iadd(tiBuffer, m.buf)
            ELSE rwWeights' = [blob |-> m.blob, ver |-> m.ver]

(***************************************************************************)
(* C28: every iteration that does not end the connection polls once,       *)
(* whatever the outbound half did: an iteration that does not send polls   *)
(* at once, one that sends polls before it is back at the top of the loop. *)
(* In particular an iteration that finds the thread waiting for an ACK,    *)
(* the ACK timeout not reached and a new object to send, takes the object  *)
(* at the head of the inbound queue and stores or merges it.               *)
(***************************************************************************)
EveryIterationPolls ==
    [][ /\ \A c \in Conn :
             /\ (HandlerIter(c) /\ h[c].wait_ack /\ ~h[c].ack_old /\ HandlerReady(c)) =>
                   /\ h'[c].pc \in {"loop", "store", "idle"}
                   /\ Received(c, "srv") /\ HandlerStored(c)
             /\ ((HandlerIter(c) \/ HandlerPoll(c)) /\ h'[c].pc \notin {"idle", "sending"}) =>
                   Received(c, "srv") /\ HandlerStored(c)
             /\ (h'[c].pc = "loop" /\ h[c].pc # "loop") =>
                   h[c].pc \in {"idle", "poll", "store"}
       /\ \A r \in Roles :
             /\ (ClientIter(r) /\ cl[r].wait_ack /\ ~cl[r].ack_old /\ Ready(r)) =>
                   /\ cl'[r].pc \in {"loop", "connect"}
                   /\ Received(CurConn(r), "cli") /\ ClientStored(r)
             /\ ((ClientIter(r) \/ ClientPoll(r)) /\ cl'[r].pc \notin {"connect", "sending"}) =>
                   Received(CurConn(r), "cli") /\ ClientStored(r)
             /\ (cl'[r].pc = "loop" /\ cl[r].pc # "loop") =>
                   cl[r].pc \in {"connect", "poll"} ]_vars

\* the worker, its samples sent and unacknowledged and new samples waiting,
\* has received weights
WeightsReachedBusyWorker ==
    /\ hist.busyRecv
    /\ cl["W"].wait_ack
    /\ len(rwBuffer) >= samples_per_worker_batch
    /\ rwWeights # NoWeights
    /\ hist.mergedT = [s \in SampleIds |-> 0]

\* the buffers in flight towards one end of a connection
BuffersInFlight(c, side) ==
    {inbox[c][side][i].buf : i \in {j \in DOMAIN inbox[c][side] : inbox[c][side][j].t = "BUF"}}

(***************************************************************************)
(* C29: a trainer handler never transmits an aggregate of fewer than       *)
(* samples_per_server_batch samples and the worker never transmits a       *)
(* buffer of fewer than samples_per_worker_batch samples: a thread enters  *)
(* its send only with the buffer lock taken and the buffer long enough,    *)
(* the buffer does not change until the send has returned, and what is     *)
(* sent is that buffer.                                                    *)
(***************************************************************************)
SendGatedByLength ==
    /\ [](\A k \in Slots :
            /\ \A b \in BuffersInFlight(<<"T", k>>, "cli") :
                  len(b) >= samples_per_server_batch
            /\ \A b \in BuffersInFlight(<<"W", k>>, "srv") :
                  len(b) >= samples_per_worker_batch)
    /\ [][ /\ \A c \in Conn :
               /\ (c[1] = "T" /\ h[c].pc # "sending" /\ h'[c].pc = "sending") =>
                     /\ len(srvBuffer) >= samples_per_server_batch
                     /\ lock.srvB = NoOwner /\ lock'.srvB = Handler(c)
               /\ (c[1] = "T" /\ h[c].pc = "sending") =>
                     /\ lock.srvB = Handler(c)
                     /\ srvBuffer' = srvBuffer
               /\ (trainer_thread_send(c) /\ h'[c].wait_ack) =>
                     /\ len(srvBuffer) >= samples_per_server_batch
                     /\ (sock[c].cli /\ sock[c].ok) =>
                           inbox'[c].cli = Append(inbox[c].cli, BufMsg(srvBuffer))
           /\ (cl["W"].pc # "sending" /\ cl'["W"].pc = "sending") =>
                 /\ len(rwBuffer) >= samples_per_worker_batch
                 /\ lock.rwB = NoOwner /\ lock'.rwB = Client("W")
           /\ (cl["W"].pc = "sending" /\ ~rollout_worker_send) =>
                 /\ lock.rwB = Client("W")
                 /\ rwBuffer' = rwBuffer
           /\ (rollout_worker_send /\ cl'["W"].wait_ack) =>
                 /\ len(rwBuffer) >= samples_per_worker_batch
                 /\ (sock[CurConn("W")].srv /\ sock[CurConn("W")].ok) =>
                       inbox'[CurConn("W")].srv =
                           Append(inbox[CurConn("W")].srv, BufMsg(rwBuffer)) ]_vars

\* the worker's empty buffer was held back while the relay's aggregate of
\* two samples was sent to the trainer in one piece
WholeBatchSentEmptyBufferHeld ==
    /\ \E k \in Slots :
          \E b \in BuffersInFlight(<<"T", k>>, "cli") : len(b) = 2
    /\ len(rwBuffer) = 0
    /\ cl["W"].pc = "loop"
    /\ ~cl["W"].wait_ack

(***************************************************************************)
(* C30: whenever a relay handler or a client's inner loop stops using a    *)
(* connection (a send or its readiness check failed, the ACK timeout, a    *)
(* failed poll or receive, the inactivity timeout), its end of that        *)
(* connection is closed in the same step: a handler that has ended and a   *)
(* client back at get_connected_socket have no open socket, and an open    *)
(* end always belongs to a running handler or to the client's current      *)
(* connection.                                                             *)
(***************************************************************************)
NoConnectionAbandonedOpen ==
    /\ [](\A c \in Conn :
            /\ h[c].pc = "idle" => ~sock[c].srv
            /\ sock[c].cli => cl[c[1]].pc # "connect" /\ cl[c[1]].slot = c[2])
    /\ [][ /\ \A c \in Conn :
               (h[c].pc # "idle" /\ h'[c].pc = "idle") =>
                   /\ ~sock'[c].srv
                   /\ inbox'[c].srv = <<>>
                   /\ Handler(c) \notin Range(lock')
           /\ \A r \in Roles :
               (cl[r].pc # "connect" /\ cl'[r].pc = "connect") =>
                   /\ cl'[r].left \in {"send_failed", "ack_timeout", "poll_failed",
                                        "recv_timeout"}
                   /\ ~sock'[CurConn(r)].cli
                   /\ inbox'[CurConn(r)].cli = <<>>
                   /\ Client(r) \notin Range(lock') ]_vars

\* a link has broken, the client has left on a failed poll and the handler
\* has ended: both ends of the connection are closed
BothEndsClosedAfterLinkBroke ==
    \E c \in Conn :
        /\ ~sock[c].ok
        /\ ~sock[c].cli /\ ~sock[c].srv
        /\ h[c].pc = "idle"
        /\ cl[c[1]].left = "poll_failed"
        /\ cl[c[1]].pc = "connect"

\* the ACK tokens received and unread at one end of a connection
AcksInFlight(c, side) ==
    Cardinality({i \in DOMAIN inbox[c][side] : inbox[c][side][i].t = "ACK"})

(***************************************************************************)
(* C31: on a connection a sender stops waiting for an ACK only in the poll *)
(* that reads an ACK token, and an ACK token comes into being only in the  *)
(* step in which the peer takes a payload from its queue.  So the ACKs a   *)
(* side has read plus those on their way to it never exceed the payloads   *)
(* it has sent on that connection, and the ACKs on their way to a side     *)
(* never exceed its unacknowledged payloads.                               *)
(***************************************************************************)
AckOnlyForReceivedPayload ==
    /\ [](/\ \A c \in Conn :
              /\ h[c].out >= 0 /\ h[c].out <= h[c].nsent
              /\ AcksInFlight(c, "srv") <= h[c].out
          /\ \A r \in Roles :
              /\ cl[r].out >= 0 /\ cl[r].out <= cl[r].nsent
              /\ cl[r].pc # "connect" => AcksInFlight(CurConn(r), "cli") <= cl[r].out)
    /\ [][ /\ \A c \in Conn :
               /\ (h[c].wait_ack /\ ~h'[c].wait_ack /\ h'[c].pc # "idle") =>
                     /\ HandlerIter(c) \/ HandlerPoll(c)
                     /\ PollResult(c, "srv").t = "ACK"
                     /\ inbox'[c].srv = Tail(inbox[c].srv)
               /\ \A side \in {"cli", "srv"} :
                     AcksInFlight(c, side)' > AcksInFlight(c, side) =>
                         /\ AcksInFlight(c, side)' = AcksInFlight(c, side) + 1
                         /\ PollResult(c, Peer(side)).t \in {"W", "BUF"}
                         /\ inbox'[c][Peer(side)] = Tail(inbox[c][Peer(side)])
           /\ \A r \in Roles :
               (cl[r].wait_ack /\ ~cl'[r].wait_ack /\ cl'[r].pc # "connect") =>
                     /\ ClientIter(r) \/ ClientPoll(r)
                     /\ PollResult(CurConn(r), "cli").t = "ACK"
                     /\ inbox'[CurConn(r)].cli = Tail(inbox[CurConn(r)].cli) ]_vars

\* on one worker connection the relay's weights and the worker's samples
\* have both been acknowledged, and both senders are idle again
BothDirectionsAcknowledged ==
    \E c \in Conn :
        /\ c[1] = "W"
        /\ cl["W"].pc = "loop" /\ CurConn("W") = c
        /\ h[c].nsent = 1 /\ h[c].out = 0 /\ ~h[c].wait_ack
        /\ cl["W"].nsent = 1 /\ cl["W"].out = 0 /\ ~cl["W"].wait_ack
        /\ inbox[c] = [cli |-> <<>>, srv |-> <<>>]

(***************************************************************************)
(* C32: each accept loop runs for ever.  Every connection accept returns   *)
(* gets one handler thread, started before the loop listens again, and the *)
(* loop does not wait for threads it has started.  When accept fails or    *)
(* times out the listening socket is closed and the loop starts over.  A   *)
(* loop has at most one listening socket open, and none when it opens the  *)
(* next.                                                                   *)
(***************************************************************************)
AcceptLoopRunsForever ==
    /\ [](\A r \in Roles :
            /\ acc[r].listening = (IF acc[r].pc = "listen" THEN 0 ELSE 1)
            /\ acc[r].threads =
                  [i \in 1..(IF acc[r].pc = "start" THEN acc[r].accepted - 1
                                                   ELSE acc[r].accepted) |-> i])
    /\ [][\A r \in Roles :
            /\ get_listening_socket(r) => acc[r].listening = 0
            /\ (accept_or_close_socket(r) /\ acc'[r].accepted = acc[r].accepted) =>
                  /\ acc'[r].pc = "listen"
                  /\ acc'[r].listening = 0
                  /\ acc'[r].threads = acc[r].threads
            /\ acc'[r].accepted > acc[r].accepted =>
                  /\ acc'[r].accepted = acc[r].accepted + 1
                  /\ acc'[r].pc = "start" ]_vars
    /\ \A r \in Roles :
          /\ []<>(acc[r].pc = "accept")
          /\ (acc[r].pc = "start") ~> (acc[r].pc = "accept" /\ Len(acc[r].threads) = acc[r].accepted)

\* the worker port's loop has started a thread for each of two connections,
\* has had one accept fail with a client waiting, and listens again
TwoHandlersStartedOneAcceptFailed ==
    /\ acc["W"].threads = <<1, 2>>
    /\ acc["W"].errors = 1
    /\ acc["W"].pc = "accept"
    /\ acc["W"].listening = 1

\* the samples are in the order the worker produced them
InOrder(mem) == \A i, j \in DOMAIN mem : i < j => mem[i] < mem[j]

\* sample s has reached the training loop, or waits for retrieve_buffer
Arrived(s) == s \in Range(tiBuffer.memory) \/ hist.retrieved[s] >= 1

(***************************************************************************)
(* C33: as long as no connection fails and no timer expires, every sample  *)
(* handed off by send_and_clear_buffer eventually lies in the trainer-side *)
(* client's received buffer, from where the next retrieve_buffer returns   *)
(* it; samples leave that buffer through retrieve_buffer only, and they    *)
(* arrive and are returned in the order the worker produced them.          *)
(***************************************************************************)
SamplesReachTrainerInOrder ==
    /\ [](hist.faults = 0 =>
            /\ InOrder(rwBuffer.memory) /\ InOrder(srvBuffer.memory)
            /\ InOrder(tiBuffer.memory)
            /\ \A s \in Range(tiBuffer.memory), t \in SampleIds :
                  hist.retrieved[t] >= 1 => t < s)
    /\ [][ /\ ~(Range(tiBuffer.memory) \subseteq Range(tiBuffer'.memory)) =>
                 retrieve_buffer
           /\ retrieve_buffer =>
                 \A s \in Range(tiBuffer.memory) :
                     hist'.retrieved[s] = hist.retrieved[s] + 1 ]_vars
    /\ \A s \in SampleIds :
          (hist.nsamples >= s) ~> (Arrived(s) \/ hist.faults > 0)

\* without any failure, the two samples of two episodes have been returned
\* by two calls of retrieve_buffer
TwoEpisodesRetrieved ==
    /\ hist.faults = 0
    /\ hist.retrieved = [s \in SampleIds |-> 1]
    /\ hist.retStats.stat_train_steps = 1
    /\ hist.sentS = [s \in SampleIds |-> 1]
    /\ tiBuffer.memory = <<>>
    /\ \E c \in Conn : c[1] = "T" /\ h[c].nsent = 2

\* thread r of a client leaves its inner loop from the send branch
ClientSendExit(r, why) ==
    /\ cl[r].pc \in {"loop", "sending"}
    /\ cl'[r].pc = "connect" /\ cl'[r].left = why

\* handler c ends in the send branch: the send failed, or the ack timed out
\* with an object ready
HandlerSendExit(c) ==
    /\ h'[c].pc = "idle"
    /\ \/ h[c].pc = "sending"
       \/ /\ h[c].pc = "loop" /\ HandlerReady(c)
          /\ ~may_send(h[c].wait_ack) /\ ack_timed_out(h[c].ack_old)

(***************************************************************************)
(* C34: a thread that leaves its loop in the send branch, because          *)
(* select_and_send_or_close_socket returned False or because the ack timed *)
(* out, leaves the object that was waiting as it is: the worker's outbound *)
(* buffer, the relay's aggregate or weights, the trainer's staged weights. *)
(* The object is still ready for the next connection and nothing in it has *)
(* been sent before.                                                       *)
(***************************************************************************)
FailedAttemptKeepsWaitingObject ==
    [][/\ \A why \in {"send_failed", "ack_timeout"} :
            /\ ClientSendExit("W", why) =>
                  /\ rwBuffer' = rwBuffer
                  /\ batch_available(rwBuffer', samples_per_worker_batch)
                  /\ \A s \in Range(rwBuffer'.memory) : hist'.sentW[s] = 0
            /\ ClientSendExit("T", why) =>
                  /\ tiWeights' = tiWeights /\ tiWeights' # 0
                  /\ hist'.sentT[tiWeights'] = 0
       /\ \A c \in Conn : HandlerSendExit(c) =>
            /\ srvBuffer' = srvBuffer
            /\ srvWeights' = srvWeights /\ srvWeightsId' = srvWeightsId
            /\ c[1] = "T" =>
                  /\ batch_available(srvBuffer', samples_per_server_batch)
                  /\ \A s \in Range(srvBuffer'.memory) : hist'.sentS[s] = 0
            /\ c[1] = "W" =>
                  weights_are_new(initial_worker_weights_id, srvWeightsId')]_vars

\* the first broadcast was sent and never acknowledged in time; the second one
\* is still staged after the connection was given up
StagedWeightsOutliveAckTimeout ==
    /\ cl["T"].left = "ack_timeout"
    /\ hist.sentT[1] = 1
    /\ tiWeights = 2 /\ hist.sentT[2] = 0

\* the steps of the thread that owns a lock
OwnerStep(owner) ==
    \/ \E c \in Conn :
          /\ owner = Handler(c)
          /\ \/ trainer_thread_send(c) \/ trainer_thread_clear(c)
             \/ rollout_worker_thread_send(c)
    \/ owner = Client("T") /\ (trainer_interface_send \/ trainer_interface_clear)
    \/ owner = Client("W") /\ rollout_worker_send

\* the places of a loop where a thread acquires a lock: the top of an
\* iteration and the branch after the poll
AcquiresLock(pc) == pc \in {"loop", "poll", "store"}

(***************************************************************************)
(* C35: no thread holds two locks: a thread holds a lock only inside its   *)
(* send branch, and wherever it acquires a lock (the top of an iteration,  *)
(* the branch that stores what the poll returned) it holds none.  Hence a  *)
(* thread that holds a lock never waits for another thread: it can always  *)
(* take its next step.                                                     *)
(***************************************************************************)
NoThreadHoldsTwoLocks ==
    /\ \A l \in DOMAIN lock :
          \/ lock[l] = NoOwner
          \/ \E c \in Conn : lock[l] = Handler(c)
          \/ \E r \in Roles : lock[l] = Client(r)
    /\ \A c \in Conn :
          /\ Cardinality(Held(Handler(c))) <= 1
          /\ AcquiresLock(h[c].pc) => Held(Handler(c)) = {}
          /\ Held(Handler(c)) \subseteq (IF c[1] = "T" THEN {"srvB"} ELSE {"srvW"})
    /\ \A r \in Roles :
          /\ Cardinality(Held(Client(r))) <= 1
          /\ AcquiresLock(cl[r].pc) => Held(Client(r)) = {}
          /\ Held(Client(r)) \subseteq (IF r = "T" THEN {"tiW"} ELSE {"rwB"})
    /\ \A l \in DOMAIN lock : lock[l] # NoOwner => ENABLED OwnerStep(lock[l])

\* the relay's buffer lock and weights lock and the trainer-side client's
\* weights lock are held at once, by three threads
ThreeLocksHeldByThreeThreads ==
    /\ \E c \in Conn : lock.srvB = Handler(c)
    /\ \E c \in Conn : lock.srvW = Handler(c)
    /\ lock.tiW = Client("T")

(***************************************************************************)
(* C36: a relay handler that ends and a client thread that leaves its      *)
(* inner loop hold no lock: an exit taken after a failed send, made with  *)
(* the lock held, releases it first; an ack timeout is an exit of the step *)
(* that acquires the lock, tests and releases; the other exits are taken   *)
(* where no lock is held.                                                  *)
(***************************************************************************)
NoExitHoldingLock ==
    /\ [](/\ \A c \in Conn : h[c].pc = "idle" => Held(Handler(c)) = {}
          /\ \A r \in Roles : cl[r].pc = "connect" => Held(Client(r)) = {})
    /\ [][/\ \A c \in Conn :
              (h[c].pc # "idle" /\ h'[c].pc = "idle") =>
                  /\ Held(Handler(c))' = {}
                  /\ h[c].pc = "sending" => Held(Handler(c)) # {}
          /\ \A r \in Roles :
              (cl[r].pc # "connect" /\ cl'[r].pc = "connect") =>
                  /\ Held(Client(r))' = {}
                  /\ cl[r].pc = "sending" => Held(Client(r)) # {}]_vars

\* the trainer-side client left on a failed send, made with the weights lock
\* held; the lock is free for the next broadcast_model
WeightsLockFreeAfterFailedSend ==
    /\ cl["T"].left = "send_failed"
    /\ cl["T"].pc = "connect"
    /\ tiWeights # 0
    /\ acquire("tiW")

\* a result of the poll for a body that was read in full and is the pickle of None
NonePayload(r) == r.full /\ pickle_loads(r.body) = NoneObj

(***************************************************************************)
(* C37: a payload that is read in full and unpickles to None is not        *)
(* delivered as data.  recv_object has written the ACK token when it       *)
(* returns the None, and poll_and_recv_or_close_socket takes the None for  *)
(* a lost connection: the socket is closed and the thread leaves its loop  *)
(* in the regular way.  The sender is acknowledged and dropped.            *)
(***************************************************************************)
NonePayloadAckedAndDropped ==
    /\ \A k \in DOMAIN whist.returned :
          LET r == whist.returned[k]
          IN  /\ r.t # "None"
              /\ NonePayload(r) =>
                    /\ r.t = "lost" /\ DroppedConnection
                    /\ k = Len(whist.returned)
                    /\ whist.got >= 1 /\ chan.back = AckTokens(whist.got)
    /\ (rcv.pc = "loads" /\ pickle_loads(rcv.msg) = NoneObj) =>
          chan.back = AckTokens(whist.got)

\* the peer's connection is up, its None payload was acknowledged, and the
\* receiver has closed its socket, after it had delivered an object
NoneDroppedHealthyConnection ==
    /\ chan.up
    /\ Len(whist.returned) = 2
    /\ whist.returned[1].t = "bytes"
    /\ NonePayload(whist.returned[2])
    /\ whist.returned[2].body = pickle_dumps(NoneObj)
    /\ chan.back = AckTokens(2)
    /\ DroppedConnection

\* the weights payloads on their way to one end of connection c
WeightsInFlight(c, side) ==
    {inbox[c][side][i] : i \in {j \in DOMAIN inbox[c][side] : inbox[c][side][j].t = "W"}}

(***************************************************************************)
(* C38: no None payload is transmitted.  The relay's weights are None      *)
(* exactly while its version counter is 0, and a worker handler, which     *)
(* starts from version 0, enters its send only with the counter above 0;   *)
(* the trainer-side client enters its send only with weights staged; so    *)
(* every weights payload in flight, and every blob the relay or the worker *)
(* holds, is a blob that a broadcast_model call produced.                  *)
(***************************************************************************)
NoNonePayloadTransmitted ==
    /\ (srvWeightsId = 0) <=> (srvWeights = 0)
    /\ srvWeights \in 0..hist.bcast /\ rwWeights.blob \in 0..hist.bcast
    /\ tiWeights \in 0..hist.bcast
    /\ \A c \in Conn :
          /\ (c[1] = "W" /\ h[c].pc = "sending") => srvWeightsId > 0 /\ srvWeights # 0
          /\ (c[1] = "W" /\ srvWeightsId = 0) => h[c].nsent = 0
          /\ \A side \in {"cli", "srv"} :
                \A m \in WeightsInFlight(c, side) : m.blob \in 1..hist.bcast
    /\ cl["T"].pc \in {"sending", "sent"} => tiWeights # 0
    /\ srvWeightsId = 0 => \A v \in BlobIds : hist.sentV[v] = 0

\* a worker connection has carried samples while the relay has no weights
\* yet: its handler has sent nothing, and the first blob is on its way to the
\* relay
WorkerHandlerSilentBeforeFirstBlob ==
    /\ srvWeightsId = 0
    /\ hist.mergedS[1] = 1
    /\ \E c \in Conn : c[1] = "W" /\ h[c].pc = "loop" /\ h[c].nsent = 0 /\ sock[c].srv
    /\ \E c \in Conn : c[1] = "T" /\ WMsg(1, 0) \in WeightsInFlight(c, "srv")

=============================================================================
